---- MODULE Spec2Model ----
(***************************************************************************)
(* go-flow: typed dataflow pipelines.                                      *)
(*                                                                         *)
(* The model covers the pipeline builder (core.Pipeline), the pipeline     *)
(* validator (core.PipelineValidator), and the two execution engines       *)
(* (execution.DefaultEngine, execution.ConcurrentEngine).                  *)
(*                                                                         *)
(* Go maps are iterated in an unspecified order; every loop over a map is  *)
(* modelled as a choice over all orders of its keys.                       *)
(***************************************************************************)
EXTENDS Integers, Sequences, FiniteSets, TLC

(***************************************************************************)
(* Bounds of the model.                                                    *)
(***************************************************************************)
\* longest sequence of connections a pipeline is given
MaxConns == 2
\* most construction errors a pipeline records
MaxErrors == 1
MaxCollected == 1
MaxThreshold == 2
MaxTimeout == 1
MaxTime == 2
MaxCount == 3
MaxRetries == 2
\* most TopologicalSort calls on one Graph
MaxSorts == 2
\* the settings of a PipelineConfig range over 0..MaxSetting
MaxSetting == 1
\* most errors an ErrorCollector of its own holds
MaxLog == 3

(***************************************************************************)
(* The components a pipeline is built from.  Every component embeds        *)
(* BaseComponent and declares one input port "in" and one output port      *)
(* "out"; they differ in the port types and in the required flag.          *)
(***************************************************************************)
Names == {"a", "b", "c"}

Types == {"string", "int"}

BasePort(name, type, required) ==
    [PortName |-> name, PortType |-> type, IsRequired |-> required]

\* BaseComponent.InputPorts of the component registered under name n
InputPorts(n) ==
    CASE n = "a" -> << BasePort("in", "string", FALSE) >>
      [] n = "b" -> << BasePort("in", "string", TRUE) >>
      [] OTHER   -> << BasePort("in", "string", TRUE) >>

\* BaseComponent.OutputPorts of the component registered under name n
OutputPorts(n) ==
    CASE n = "a" -> << BasePort("out", "string", FALSE) >>
      [] n = "b" -> << BasePort("out", "string", FALSE) >>
      [] OTHER   -> << BasePort("out", "int", FALSE) >>

\* port names the callers of the builder pass
OutPortNames == {"out"}
InPortNames == {"in"}

\* Connection: the fields the validator and the engines read
Connection(from, fromPort, to, toPort, transform) ==
    [FromComponent |-> from, FromPort |-> fromPort,
     ToComponent |-> to, ToPort |-> toPort, Transform |-> transform]

\* Go's nil
Nil == << >>

Connections ==
    [FromComponent : Names, FromPort : OutPortNames,
     ToComponent : Names, ToPort : InPortNames, Transform : BOOLEAN]

(***************************************************************************)
(* State.                                                                  *)
(***************************************************************************)
VARIABLES
    components,     \* Pipeline.components: the names components are registered under
    connections,    \* Pipeline.connections
    errors,         \* Pipeline.errors: one entry per construction error (the
                    \* message is not kept: only len(p.errors) is ever read)
    engine,         \* Pipeline.engine: "nil", "default" or "concurrent"
    config,         \* Pipeline.config: the PipelineConfig, or Nil
    result,         \* what the latest query of the pipeline returned
                    \* (ValidateComprehensive, GetTopologyOrder, ...); dropped
                    \* when the pipeline is built further
    previous,       \* history: what the query before the latest returned,
                    \* when it was the same query on the same pipeline
    runResult,      \* Pipeline.Run: not called, running, or what it returned
    invoked,        \* per component, the number of Process calls of the run
    procErr,        \* the components whose Process call returned an error
    compInputs,     \* per component, the inputs map handed to Process
    sorted,         \* DefaultEngine.Run: the order TopologicalSort returned
    pos,            \* DefaultEngine.Run: index in sorted of the next component
    data,           \* DefaultEngine.Run: the data map, keyed by output port
    wpc,            \* ConcurrentEngine.Run: where each worker goroutine is
    nread,          \* ConcurrentEngine.Run: inbound connections a worker has read
    pending,        \* ConcurrentEngine.Run: outputs a worker has still to send
    errCh,          \* ConcurrentEngine.Run: the buffered error channel
    closed,         \* ConcurrentEngine.Run: errCh and the queues are closed
    ctxCancelled,   \* the context handed to Run has been cancelled
    attached,       \* history: the names of the components, in the order of
                    \* the AddComponent calls (the program keeps no such order)
    cleanup,        \* the latest Pipeline.Cleanup call: the components whose
                    \* Cleanup it called, in call order, those that failed,
                    \* and the number of errors it reported
    ecErrors,       \* ErrorCollector.errors of a collector of its own
                    \* (NewErrorCollector)
    ecMutex,        \* ErrorCollector.mutex: the goroutine that holds it
    ecCalls,        \* per goroutine, where its Collect call is and its error
    ecLog,          \* history: the errors whose Collect has completed since
                    \* the latest Clear, in the order they completed
    execGraph,      \* an execution.Graph made by NewGraph (nodes, edges,
                    \* inDegree), or Nil
    sub,            \* Pipeline.Process (the pipeline run as a component): where
                    \* the call is, its input and output channels, and the
                    \* outputs map it returns
    errorCollector, \* Pipeline.errorCollector: the components of the errors
                    \* collected, in the order of the Collect calls
    cb,             \* BaseCircuitBreaker: state, failureCount, successCount,
                    \* lastFailureTime
    cbConfig,       \* BaseCircuitBreaker: failureThreshold, successThreshold,
                    \* timeout, as given to NewCircuitBreaker
    now,            \* the clock time.Now and time.Since read
    calls,          \* per calling goroutine, where its Execute call is, the
                    \* state it read, and what its latest Execute returned
    consecutiveFailures, \* history: failed calls completed since the latest
                    \* successful call or Reset
    halfOpenSuccesses,   \* history: successful calls completed since the
                    \* breaker last changed to HalfOpen
    retryAttempts,  \* DefaultErrorHandler.retryAttempts (0: no entry)
    maxRetries,     \* DefaultErrorHandler.maxRetries
    handled,        \* the latest HandleError call: its error, the retry count
                    \* it found, and the action it returned
    retriesReturned \* history: per key, the Retry actions HandleError has
                    \* returned since the latest ResetRetryCount of the key

buildVars == << components, connections, errors, engine, config, attached >>
objectVars == << cleanup, ecErrors, ecMutex, ecCalls, ecLog, execGraph >>
runVars == << runResult, invoked, procErr, compInputs >>
seqVars == << sorted, pos, data >>
concVars == << wpc, nread, pending, errCh, closed, ctxCancelled >>

pipelineVars == << buildVars, result, previous, runVars, seqVars, concVars,
                  sub, errorCollector, objectVars >>
cbVars == << cb, cbConfig, now, calls, consecutiveFailures, halfOpenSuccesses >>
ehVars == << retryAttempts, maxRetries, handled, retriesReturned >>
resilienceVars == << cbVars, ehVars >>

vars == << buildVars, result, previous, runVars, seqVars, concVars, sub,
           errorCollector, objectVars,
           resilienceVars >>

\* sequences over S without repetition that enumerate S: the orders a Go map
\* over the keys S can be ranged in
Perms(S) ==
    { s \in [1..Cardinality(S) -> S] : \A i, j \in DOMAIN s : i # j => s[i] # s[j] }

Range(s) == { s[i] : i \in DOMAIN s }


(***************************************************************************)
(* core.PipelineValidator                                                  *)
(***************************************************************************)
\* node.Dependents of buildComponentGraph: the sinks of the connections that
\* leave n, in connection order (only nodes of registered components exist)
Dependents(comps, conns, n) ==
    IF n \in comps
    THEN SelectSeq(conns, LAMBDA c : c.FromComponent = n)
    ELSE << >>

\* inDegree after "Calculate in-degrees": one per edge that enters n
InDegree(conns, n) ==
    Len(SelectSeq(conns, LAMBDA c : c.ToComponent = n))

\* RelaxDependents without the "inDegree[dependent] == 0" test
RECURSIVE RelaxDependents_NoDegreeTest(_, _, _, _)
RelaxDependents_NoDegreeTest(deps, i, queue, inDegree) ==
    IF i > Len(deps)
    THEN [queue |-> queue, inDegree |-> inDegree]
    ELSE LET dependent == deps[i].ToComponent
         IN RelaxDependents_NoDegreeTest(deps, i + 1,
                Append(queue, dependent),
                [inDegree EXCEPT ![dependent] = @ - 1])

\* the loop over node.Dependents inside calculateTopologyOrder
RECURSIVE RelaxDependents(_, _, _, _)
RelaxDependents(deps, i, queue, inDegree) ==
    IF i > Len(deps)
    THEN [queue |-> queue, inDegree |-> inDegree]
    ELSE LET dependent == deps[i].ToComponent
             d == inDegree[dependent] - 1
         IN RelaxDependents(deps, i + 1,
                IF d = 0 THEN Append(queue, dependent) ELSE queue,
                [inDegree EXCEPT ![dependent] = d])

\* the "for len(queue) > 0" loop of calculateTopologyOrder
RECURSIVE KahnLoop(_, _, _, _, _)
KahnLoop(comps, conns, queue, inDegree, topologyOrder) ==
    IF queue = << >>
    THEN topologyOrder
    ELSE LET current == Head(queue)
             r == RelaxDependents(Dependents(comps, conns, current), 1,
                                  Tail(queue), inDegree)
         IN KahnLoop(comps, conns, r.queue, r.inDegree,
                     Append(topologyOrder, current))

\* calculateTopologyOrder: queue0 is the order in which the range over the
\* inDegree map yields the nodes of in-degree 0.  Returns the order and
\* whether the "cycle detected in component graph" error is returned.
calculateTopologyOrder(comps, conns, queue0) ==
    LET order == KahnLoop(comps, conns, queue0,
                          [n \in Names |-> InDegree(conns, n)], << >>)
    IN [err |-> Len(order) # Cardinality(comps), order |-> order]

\* the nodes the range over inDegree can append to the initial queue
ZeroInDegree(comps, conns) ==
    { n \in comps : InDegree(conns, n) = 0 }

\* the loop over node.Dependents inside calculateCriticalPath
RECURSIVE RelaxDistances(_, _, _, _)
RelaxDistances(deps, i, current, st) ==
    IF i > Len(deps) THEN st
    ELSE LET dependent == deps[i].ToComponent
             newDistance == st.distances[current] + 1
         IN RelaxDistances(deps, i + 1, current,
                IF newDistance > st.distances[dependent]
                THEN [distances |-> [st.distances EXCEPT ![dependent] = newDistance],
                      predecessors |-> [st.predecessors EXCEPT ![dependent] = current]]
                ELSE st)

\* calculateCriticalPath, "Process nodes in topological order"
RECURSIVE LongestDistances(_, _, _, _, _)
LongestDistances(comps, conns, topologyOrder, i, st) ==
    IF i > Len(topologyOrder) THEN st
    ELSE LongestDistances(comps, conns, topologyOrder, i + 1,
            RelaxDistances(Dependents(comps, conns, topologyOrder[i]), 1,
                           topologyOrder[i], st))

\* distances and predecessors after the loop over graph.TopologyOrder (a
\* missing key of either map reads as 0 and as "")
CriticalDistances(comps, conns, topologyOrder) ==
    LongestDistances(comps, conns, topologyOrder, 1,
                     [distances |-> [n \in Names |-> 0],
                      predecessors |-> [n \in Names |-> ""]])

\* "Find the node with maximum distance": maxDistance starts at 0 and a node
\* replaces endNode only with a greater distance, so endNode is the first
\* node of greatest distance the range over the map yields, any of them, and
\* stays "" when every distance is 0
EndNodes(comps, conns, topologyOrder) ==
    LET d == CriticalDistances(comps, conns, topologyOrder).distances
        maxDistance == CHOOSE m \in { d[n] : n \in Names } :
                            \A n \in Names : d[n] <= m
    IN IF topologyOrder = << >> \/ maxDistance = 0 THEN { "" }
       ELSE { n \in Names : d[n] = maxDistance }

\* "Reconstruct critical path"
RECURSIVE ReconstructPath(_, _, _)
ReconstructPath(predecessors, current, criticalPath) ==
    IF current = "" THEN criticalPath
    ELSE ReconstructPath(predecessors, predecessors[current],
                         << current >> \o criticalPath)

\* calculateCriticalPath: graph.CriticalPath (left nil for an empty
\* TopologyOrder); endNode is the node the range over distances settles on
calculateCriticalPath(comps, conns, topologyOrder, endNode) ==
    IF Len(topologyOrder) = 0 THEN << >>
    ELSE ReconstructPath(
            CriticalDistances(comps, conns, topologyOrder).predecessors,
            endNode, << >>)

\* graph.TopologyOrder as buildComponentGraph leaves it
GraphTopologyOrder(comps, conns, queue0) ==
    LET t == calculateTopologyOrder(comps, conns, queue0)
    IN IF t.err THEN << >> ELSE t.order

\* buildComponentGraph: graph.TopologyOrder (nil when calculateTopologyOrder
\* returned its error) and graph.CriticalPath (computed only without that
\* error); the build itself never returns an error
buildComponentGraph(comps, conns, queue0, endNode) ==
    LET t == calculateTopologyOrder(comps, conns, queue0)
    IN [err |-> FALSE,
        TopologyOrder |-> IF t.err THEN << >> ELSE t.order,
        CriticalPath |-> IF t.err THEN << >>
                         ELSE calculateCriticalPath(comps, conns, t.order, endNode)]

\* adjacency list of detectCycles
CycleGraph(conns) ==
    [n \in Names |-> SelectSeq(conns, LAMBDA c : c.FromComponent = n)]

\* hasCycle: DFS with the visited and recursionStack maps
RECURSIVE hasCycle(_, _, _)
RECURSIVE hasCycleLoop(_, _, _, _)
\* hasCycleLoop without the recursionStack test
hasCycleLoop_NoStackTest(component, i, st, graph) ==
    IF i > Len(graph[component])
    THEN [st EXCEPT !.recursionStack = @ \ {component}]
    ELSE LET neighbor == graph[component][i].ToComponent
         IN IF neighbor \notin st.visited
            THEN LET r == hasCycle(neighbor, st, graph)
                 IN IF r.found THEN r
                    ELSE hasCycleLoop(component, i + 1, r, graph)
            ELSE hasCycleLoop(component, i + 1, st, graph)

hasCycleLoop(component, i, st, graph) ==
    IF i > Len(graph[component])
    THEN [st EXCEPT !.recursionStack = @ \ {component}]
    ELSE LET neighbor == graph[component][i].ToComponent
         IN IF neighbor \notin st.visited
            THEN LET r == hasCycle(neighbor, st, graph)
                 IN IF r.found THEN r
                    ELSE hasCycleLoop(component, i + 1, r, graph)
            ELSE IF neighbor \in st.recursionStack
                 THEN [st EXCEPT !.found = TRUE]
                 ELSE hasCycleLoop(component, i + 1, st, graph)

hasCycle(component, st, graph) ==
    hasCycleLoop(component, 1,
                 [st EXCEPT !.visited = @ \cup {component},
                            !.recursionStack = @ \cup {component}],
                 graph)

\* the "for component := range p.GetComponents()" loop of detectCycles
RECURSIVE detectCyclesLoop(_, _, _, _)
detectCyclesLoop(order, i, st, graph) ==
    IF i > Len(order) THEN ""
    ELSE IF order[i] \notin st.visited
         THEN LET r == hasCycle(order[i], st, graph)
              IN IF r.found THEN order[i]
                 ELSE detectCyclesLoop(order, i + 1, r, graph)
         ELSE detectCyclesLoop(order, i + 1, st, graph)

\* detectCycles: the component its "cycle detected in pipeline graph
\* involving component %s" error names, "" when it returns nil; order is the
\* order in which the components map is ranged
detectCycles(conns, order) ==
    detectCyclesLoop(order, 1,
                     [visited |-> {}, recursionStack |-> {}, found |-> FALSE],
                     CycleGraph(conns))

\* PipelineValidationError: Type, Component, Port, Connection, Severity, and
\* what Message says beyond the other fields (nothing, for most errors)
ValidationError(type, component, port, connection, severity) ==
    [Type |-> type, Component |-> component, Port |-> port,
     Connection |-> connection, Message |-> << >>, Severity |-> severity]

\* ValidationWarning: Type, Component, Message
ValidationWarning(type, component, message) ==
    [Type |-> type, Component |-> component, Message |-> message]

\* Connection.Name as Connect and its variants set it
ConnName(c) == << c.FromComponent, c.FromPort, c.ToComponent, c.ToPort >>

NoConn == << >>

PortNamed(ports, name) ==
    SelectSeq(ports, LAMBDA p : p.PortName = name)

\* validateComponents: Component.Validate of BaseComponent returns nil, so
\* the errors are those of the required input ports
\* validateComponents matching a connection by its port name alone
validateComponents_AnyComponent(comps, conns) ==
    UNION { { ValidationError("MissingPort", n, InputPorts(n)[i].PortName,
                              NoConn, "Error") :
                i \in { j \in DOMAIN InputPorts(n) :
                          /\ InputPorts(n)[j].IsRequired
                          /\ ~ \E k \in DOMAIN conns :
                                conns[k].ToPort = InputPorts(n)[j].PortName } } :
            n \in comps }

validateComponents(comps, conns) ==
    UNION { { ValidationError("MissingPort", n, InputPorts(n)[i].PortName,
                              NoConn, "Error") :
                i \in { j \in DOMAIN InputPorts(n) :
                          /\ InputPorts(n)[j].IsRequired
                          /\ ~ \E k \in DOMAIN conns :
                                /\ conns[k].ToComponent = n
                                /\ conns[k].ToPort = InputPorts(n)[j].PortName } } :
            n \in comps }

\* validateConnections: the errors one connection adds
validateConnection(comps, conn) ==
    IF conn.FromComponent \notin comps
    THEN { ValidationError("MissingComponent", conn.FromComponent, "",
                           ConnName(conn), "Critical") }
    ELSE IF conn.ToComponent \notin comps
    THEN { ValidationError("MissingComponent", conn.ToComponent, "",
                           ConnName(conn), "Critical") }
    ELSE LET fromPort == PortNamed(OutputPorts(conn.FromComponent), conn.FromPort)
             toPort == PortNamed(InputPorts(conn.ToComponent), conn.ToPort)
         IN IF fromPort = << >>
            THEN { ValidationError("MissingPort", conn.FromComponent,
                                   conn.FromPort, ConnName(conn), "Error") }
            ELSE IF toPort = << >>
            THEN { ValidationError("MissingPort", conn.ToComponent,
                                   conn.ToPort, ConnName(conn), "Error") }
            ELSE IF fromPort[1].PortType # toPort[1].PortType
            THEN { ValidationError("TypeMismatch", conn.FromComponent,
                                   conn.FromPort, ConnName(conn), "Error") }
            ELSE {}

validateConnections(comps, conns) ==
    UNION { validateConnection(comps, conns[k]) : k \in DOMAIN conns }

\* validateComponents, "Check for unused output ports"
UnusedOutputWarnings(comps, conns) ==
    UNION { { ValidationWarning("Unused", n,
                                << "output port not connected",
                                   OutputPorts(n)[i].PortName >>) :
                i \in { j \in DOMAIN OutputPorts(n) :
                          ~ \E k \in DOMAIN conns :
                                /\ conns[k].FromComponent = n
                                /\ conns[k].FromPort = OutputPorts(n)[j].PortName } } :
            n \in comps }

\* Connection.BufferSize: Connect and its variants set it to
\* p.config.DefaultBufferSize, and the pipelines of the model are built
\* under the configuration they keep (SetConnectionBufferSize is not called)
BufferSize(cfg, conn) == cfg.DefaultBufferSize

\* validateConnections, "Validate buffer size": reached by the connections
\* whose components and ports exist
BufferSizeWarnings(comps, conns, cfg) ==
    { ValidationWarning("Configuration", conns[k].FromComponent,
                        << "invalid buffer size", ConnName(conns[k]) >>) :
        k \in { j \in DOMAIN conns :
                  /\ conns[j].FromComponent \in comps
                  /\ conns[j].ToComponent \in comps
                  /\ PortNamed(OutputPorts(conns[j].FromComponent),
                               conns[j].FromPort) # << >>
                  /\ PortNamed(InputPorts(conns[j].ToComponent),
                               conns[j].ToPort) # << >>
                  /\ BufferSize(cfg, conns[j]) <= 0 } }

\* adjacency list of validateConnectivity: per connection, the sink is
\* appended to the list of the source and the source to that of the sink
RECURSIVE Adjacency(_, _, _)
Adjacency(conns, i, n) ==
    IF i > Len(conns) THEN << >>
    ELSE (IF conns[i].FromComponent = n THEN << conns[i].ToComponent >> ELSE << >>)
         \o (IF conns[i].ToComponent = n THEN << conns[i].FromComponent >> ELSE << >>)
         \o Adjacency(conns, i + 1, n)

\* dfsConnectivity: st holds visited and the component list being filled
RECURSIVE dfsConnectivity(_, _, _)
RECURSIVE dfsNeighbors(_, _, _, _)
dfsNeighbors(node, i, conns, st) ==
    LET neighbors == Adjacency(conns, 1, node)
    IN IF i > Len(neighbors) THEN st
       ELSE dfsNeighbors(node, i + 1, conns,
                IF neighbors[i] \notin st.visited
                THEN dfsConnectivity(neighbors[i], conns, st)
                ELSE st)

dfsConnectivity(node, conns, st) ==
    dfsNeighbors(node, 1, conns,
                 [visited |-> st.visited \cup {node},
                  component |-> Append(st.component, node)])

\* validateConnectivity, "Find connected components using DFS": order is the
\* order in which the components map is ranged
RECURSIVE ConnectedComponents(_, _, _, _, _)
ConnectedComponents(order, i, conns, visited, connectedComponents) ==
    IF i > Len(order) THEN connectedComponents
    ELSE IF order[i] \notin visited
         THEN LET r == dfsConnectivity(order[i], conns,
                                       [visited |-> visited, component |-> << >>])
              IN ConnectedComponents(order, i + 1, conns, r.visited,
                                     Append(connectedComponents, r.component))
         ELSE ConnectedComponents(order, i + 1, conns, visited,
                                  connectedComponents)

\* validateConnectivity: the warnings for more than one connected component;
\* the message of a group holds its index and its list ("group %d: %v")
validateConnectivity(comps, conns, order) ==
    LET cc == ConnectedComponents(order, 1, conns, {}, << >>)
    IN IF comps = {} \/ Len(cc) <= 1 THEN {}
       ELSE { IF Len(cc[i]) = 1
              THEN ValidationWarning("Configuration", cc[i][1],
                                     << "disconnected component" >>)
              ELSE ValidationWarning("Configuration", "",
                                     << "disconnected component group", i, cc[i] >>) :
              i \in DOMAIN cc }

\* NewPipelineValidator: the validator every pipeline is made with; nothing
\* sets its fields afterwards
NewPipelineValidator == [strictMode |-> TRUE, allowCycles |-> FALSE]

\* a PipelineValidationError of validateGraph or validateConfiguration,
\* which fill Type, Message and Severity only
MessageError(type, message) ==
    [ValidationError(type, "", "", NoConn, "Error") EXCEPT !.Message = message]

\* validateGraph, "Check for cycles": the errors
validateGraph(pv, conns, order) ==
    IF ~ pv.allowCycles /\ detectCycles(conns, order) # ""
    THEN { MessageError("Cycle", << "cycle involving component",
                                    detectCycles(conns, order) >>) }
    ELSE {}

\* validateConfiguration: the errors
validateConfiguration(cfg) ==
    IF cfg = Nil
    THEN { MessageError("InvalidConfiguration", << "configuration is missing" >>) }
    ELSE (IF cfg.MaxConcurrency <= 0
          THEN { MessageError("InvalidConfiguration",
                              << "Invalid MaxConcurrency", cfg.MaxConcurrency >>) }
          ELSE {})
         \cup
         (IF cfg.DefaultBufferSize <= 0
          THEN { MessageError("InvalidConfiguration",
                              << "Invalid DefaultBufferSize", cfg.DefaultBufferSize >>) }
          ELSE {})
         \cup
         (IF cfg.MaxBufferSize < cfg.DefaultBufferSize
          THEN { MessageError("InvalidConfiguration",
                              << "MaxBufferSize is less than DefaultBufferSize",
                                 cfg.MaxBufferSize, cfg.DefaultBufferSize >>) }
          ELSE {})

\* validateConfiguration: the warning ("Validate timeout")
TimeoutWarnings(cfg) ==
    IF cfg # Nil /\ cfg.Timeout <= 0
    THEN { ValidationWarning("Configuration", "",
                             << "Timeout may cause issues", cfg.Timeout >>) }
    ELSE {}

\* validateResources: limits are in MB, the estimate is 1 MB per component
validateResources(comps, cfg) ==
    IF cfg = Nil THEN {}
    ELSE (IF cfg.MemoryLimit <= 0
          THEN { ValidationWarning("Configuration", "", << "No memory limit set" >>) }
          ELSE {})
         \cup
         (IF cfg.CPULimit <= 0
          THEN { ValidationWarning("Configuration", "", << "No CPU limit set" >>) }
          ELSE {})
         \cup
         (IF cfg.MemoryLimit > 0 /\ Cardinality(comps) > cfg.MemoryLimit
          THEN { ValidationWarning("Performance", "",
                                   << "Estimated memory usage may exceed limit",
                                      Cardinality(comps), cfg.MemoryLimit >>) }
          ELSE {})

\* what a query of the pipeline returned: op names the query; Valid, Errors
\* and Warnings are those of a ValidationResult, TopologyOrder and
\* CriticalPath those of its ComponentGraph or of the graph query, Ports the
\* list InputPorts or OutputPorts returned
QueryResult(op, valid, errs, warnings, topologyOrder, criticalPath, ports) ==
    [op |-> op, Valid |-> valid, Errors |-> errs, Warnings |-> warnings,
     TopologyOrder |-> topologyOrder, CriticalPath |-> criticalPath,
     Ports |-> ports]

\* the graphs buildComponentGraph can return: one per order in which the
\* ranges over the inDegree and distances maps can run
ComponentGraphs(comps, conns) ==
    UNION { { buildComponentGraph(comps, conns, queue0, endNode) :
                endNode \in EndNodes(comps, conns,
                                     GraphTopologyOrder(comps, conns, queue0)) } :
            queue0 \in Perms(ZeroInDegree(comps, conns)) }

\* the error sets validateGraph can add: one per order of the range over the
\* components map in detectCycles
GraphErrors(pv, comps, conns) ==
    { validateGraph(pv, conns, order) : order \in Perms(comps) }

\* the warning sets validateConnectivity can add: one per order of its range
\* over the components map
ConnectivityWarnings(comps, conns) ==
    { validateConnectivity(comps, conns, order) : order \in Perms(comps) }

\* PipelineValidator.ValidateComprehensive, given what buildComponentGraph
\* returned and what validateGraph and validateConnectivity added under the
\* map ranges that ran.  Errors and Warnings are kept as sets: the order of
\* the slices follows the map ranges and carries no information.  The ports
\* of the catalogue have no Schema, so validateTypes adds nothing.
pvValidateComprehensive(comps, conns, cfg, graph, graphErrors, connectivityWarnings) ==
    LET errs == validateComponents(comps, conns)
                  \cup validateConnections(comps, conns)
                  \cup graphErrors
                  \cup validateConfiguration(cfg)
        warnings == UnusedOutputWarnings(comps, conns)
                      \cup BufferSizeWarnings(comps, conns, cfg)
                      \cup connectivityWarnings
                      \cup TimeoutWarnings(cfg)
                      \cup validateResources(comps, cfg)
    IN IF graph.err
       THEN QueryResult("ValidateComprehensive", FALSE,
                        { ValidationError("Unknown", "", "", NoConn, "Critical") },
                        {}, << >>, << >>, << >>)
       ELSE QueryResult("ValidateComprehensive",
                        ~ \E e \in errs : e.Severity \in {"Critical", "Error"},
                        errs, warnings, graph.TopologyOrder, graph.CriticalPath,
                        << >>)

NoResult == QueryResult("none", TRUE, {}, {}, << >>, << >>, << >>)


(***************************************************************************)
(* core.Pipeline: the builder                                              *)
(***************************************************************************)
\* findPort: "" when the port is found with the expected type, else the error
findPort(ports, name, expectedType) ==
    LET found == PortNamed(ports, name)
    IN IF found = << >> THEN "port not found"
       ELSE IF found[1].PortType = expectedType THEN ""
       ELSE "port has another type"

\* validatePortMatch[T]: "" when the two ports can be connected
validatePortMatch(T, from, fromPort, to, toPort) ==
    IF findPort(OutputPorts(from), fromPort, T) # ""
    THEN "output port validation failed"
    ELSE IF findPort(InputPorts(to), toPort, T) # ""
    THEN "input port validation failed"
    ELSE IF PortNamed(OutputPorts(from), fromPort)[1].PortType
              # PortNamed(InputPorts(to), toPort)[1].PortType
    THEN "type mismatch"
    ELSE ""

\* the construction error Connect[T] records, "" when it records none
ConnectError(comps, T, from, fromPort, to, toPort) ==
    IF from \notin comps THEN "source component not found"
    ELSE IF to \notin comps THEN "target component not found"
    ELSE validatePortMatch(T, from, fromPort, to, toPort)

\* index of the first connection with these four endpoints, 0 when none
FindConnection(conns, from, fromPort, to, toPort) ==
    LET hits == { i \in DOMAIN conns :
                    ConnName(conns[i]) = << from, fromPort, to, toPort >> }
    IN IF hits = {} THEN 0
       ELSE CHOOSE i \in hits : \A j \in hits : i <= j

\* values on the queues: the output port that produced them
OutputKeys == Names \X OutPortNames

\* a channel of Pipeline.Process: made or not, its buffer, closed or not
NoChan == [made |-> FALSE, buf |-> << >>, closed |-> FALSE]

\* Pipeline.Process has not been called
NotProcessing ==
    [pc |-> "idle",
     inputs |-> {},
     inputChans |-> [name \in InPortNames |-> NoChan],
     outputChans |-> [name \in OutPortNames |-> NoChan],
     outputs |-> [name \in OutPortNames |-> Nil],
     err |-> ""]

\* the goroutines that call Execute on the breaker, or Collect on the
\* error collector
Callers == {"g1", "g2"}

\* Pipeline.Cleanup has not been called
NotCleaned == [status |-> "idle", called |-> << >>, failed |-> << >>, errs |-> 0]

\* a goroutine that is not in a Collect call: arg holds the error of the
\* call, local the slice the call has read
NotCollecting == [pc |-> "idle", arg |-> << >>, local |-> << >>]

\* no Run has been called, and nothing has been called on the collector
NotRunning ==
    /\ runResult = [status |-> "idle", err |-> "", component |-> ""]
    /\ invoked = [n \in Names |-> 0]
    /\ procErr = {}
    /\ compInputs = [n \in Names |-> [p \in InPortNames |-> Nil]]
    /\ sorted = << >>
    /\ pos = 0
    /\ data = [k \in OutputKeys |-> Nil]
    /\ wpc = [n \in Names |-> "none"]
    /\ nread = [n \in Names |-> 0]
    /\ pending = [n \in Names |-> << >>]
    /\ errCh = << >>
    /\ closed = FALSE
    /\ ctxCancelled = FALSE
    /\ errorCollector = << >>
    /\ sub = NotProcessing
    /\ cleanup = NotCleaned
    /\ ecErrors = << >>
    /\ ecMutex = ""
    /\ ecCalls = [c \in Callers |-> NotCollecting]
    /\ ecLog = << >>
    /\ execGraph = Nil

(***************************************************************************)
(* The circuit breaker and the error handler: what they are made of.       *)
(***************************************************************************)
CircuitStates == {"Closed", "Open", "HalfOpen"}

\* the zero time.Time of a breaker that has not failed yet: further back
\* than any timeout
ZeroTime == 0 - (MaxTimeout + 1)

\* a goroutine that is not inside Execute
NotCalling == [pc |-> "idle", state |-> "Closed", ret |-> "none"]

\* NewCircuitBreaker
NewCircuitBreaker(failureThreshold, successThreshold, timeout) ==
    /\ cb = [state |-> "Closed", failureCount |-> 0, successCount |-> 0,
             lastFailureTime |-> ZeroTime]
    /\ cbConfig = [failureThreshold |-> failureThreshold,
                   successThreshold |-> successThreshold,
                   timeout |-> timeout]
    /\ now = 0
    /\ calls = [c \in Callers |-> NotCalling]
    /\ consecutiveFailures = 0
    /\ halfOpenSuccesses = 0

\* the components and the declared kinds and severities errors are made of
ErrComponents == {"a", "b"}
ErrorTypes == {"RuntimeError", "NetworkError"}
Severities == {"Info", "Warning", "Error", "Critical"}

\* NewPipelineError: the fields HandleError reads
PipelineErrors ==
    [Component : ErrComponents, ErrorType : ErrorTypes,
     Severity : Severities, Recoverable : BOOLEAN]

\* ErrorType.String
ErrorTypeString(et) ==
    CASE et = "ValidationError"    -> "VALIDATION"
      [] et = "RuntimeError"       -> "RUNTIME"
      [] et = "ConfigurationError" -> "CONFIGURATION"
      [] et = "ResourceError"      -> "RESOURCE"
      [] et = "NetworkError"       -> "NETWORK"
      [] OTHER                     -> "UNKNOWN"

\* fmt.Sprintf("%s:%s", component, errorType.String())
RetryKey(component, errorType) == << component, ErrorTypeString(errorType) >>

RetryKeys == { RetryKey(c, et) : c \in ErrComponents, et \in ErrorTypes }

NoneHandled == [action |-> "none"]

\* NewDefaultErrorHandler
NewDefaultErrorHandler(max) ==
    /\ retryAttempts = [k \in RetryKeys |-> 0]
    /\ maxRetries = max
    /\ handled = NoneHandled
    /\ retriesReturned = [pair \in ErrComponents \X ErrorTypes |-> 0]

\* NewDefaultPipelineConfig: the fields the validator reads, and AllowCycles;
\* Timeout in seconds, MemoryLimit in MB
NewDefaultPipelineConfig ==
    [MaxConcurrency |-> 10, Timeout |-> 30, MemoryLimit |-> 1024, CPULimit |-> 1,
     AllowCycles |-> FALSE, DefaultBufferSize |-> 100, MaxBufferSize |-> 1000]

\* NewPipeline
NewPipeline ==
    /\ components = {}
    /\ attached = << >>
    /\ connections = << >>
    /\ errors = << >>
    /\ engine = "nil"
    /\ config = NewDefaultPipelineConfig
    /\ result = NoResult
    /\ previous = NoResult
    /\ NotRunning

\* a pipeline under construction; the breaker and the handler stay as made
Init ==
    /\ NewPipeline
    /\ NewCircuitBreaker(1, 1, 0)
    /\ NewDefaultErrorHandler(0)

\* Pipeline.AddComponent
AddComponent(name) ==
    /\ name \notin components
    /\ components' = components \cup {name}
    /\ attached' = Append(attached, name)
    /\ result' = NoResult
    /\ previous' = NoResult
    /\ UNCHANGED << connections, errors, engine, runVars, seqVars, concVars,
                    config, errorCollector, sub, objectVars, resilienceVars >>

\* Connect[T] without the "return p" that follows the recorded error
Connect_NoReturn(T, from, fromPort, to, toPort) ==
    LET err == ConnectError(components, T, from, fromPort, to, toPort)
    IN /\ Len(connections) < MaxConns
       /\ connections' =
            Append(connections, Connection(from, fromPort, to, toPort, FALSE))
       /\ IF err # ""
          THEN /\ Len(errors) < MaxErrors
               /\ errors' = Append(errors, "error")
          ELSE UNCHANGED errors
       /\ result' = NoResult
       /\ previous' = NoResult
       /\ UNCHANGED << components, attached, engine, runVars, seqVars, concVars,
                    config, errorCollector, sub, objectVars, resilienceVars >>

\* Connect[T]
Connect(T, from, fromPort, to, toPort) ==
    LET err == ConnectError(components, T, from, fromPort, to, toPort)
    IN /\ IF err # ""
          THEN /\ Len(errors) < MaxErrors
               /\ errors' = Append(errors, "error")
               /\ UNCHANGED connections
          ELSE /\ Len(connections) < MaxConns
               /\ connections' =
                    Append(connections, Connection(from, fromPort, to, toPort, FALSE))
               /\ UNCHANGED errors
       /\ result' = NoResult
       /\ previous' = NoResult
       /\ UNCHANGED << components, attached, engine, runVars, seqVars, concVars,
                    config, errorCollector, sub, objectVars, resilienceVars >>

\* Pipeline.ConnectWithTransform
ConnectWithTransform(from, fromPort, to, toPort) ==
    LET i == FindConnection(connections, from, fromPort, to, toPort)
    IN /\ IF i = 0
          THEN /\ Len(connections) < MaxConns
               /\ connections' =
                    Append(connections, Connection(from, fromPort, to, toPort, TRUE))
          ELSE /\ ~ connections[i].Transform
               /\ connections' = [connections EXCEPT ![i].Transform = TRUE]
       /\ result' = NoResult
       /\ previous' = NoResult
       /\ UNCHANGED << components, attached, errors, engine, runVars, seqVars, concVars,
                    config, errorCollector, sub, objectVars, resilienceVars >>

\* Pipeline.ConnectWithBackpressure (Connection.Backpressure is not read by
\* the validator or by the engines and is not kept in the model)
ConnectWithBackpressure(from, fromPort, to, toPort) ==
    LET i == FindConnection(connections, from, fromPort, to, toPort)
    IN /\ i = 0
       /\ Len(connections) < MaxConns
       /\ connections' =
            Append(connections, Connection(from, fromPort, to, toPort, FALSE))
       /\ result' = NoResult
       /\ previous' = NoResult
       /\ UNCHANGED << components, attached, errors, engine, runVars, seqVars, concVars,
                    config, errorCollector, sub, objectVars, resilienceVars >>

\* a query op of the pipeline is answered: for the first time since the
\* pipeline was last built further, or (again) for the second time in a row,
\* in which case the first answer is remembered in previous
Asked(op, again) ==
    IF again
    THEN /\ result.op = op
         /\ previous.op = "none"
         /\ previous' = result
    ELSE /\ result.op # op
         /\ previous' = NoResult

\* Pipeline.ValidateComprehensive
ValidateComprehensive(again) ==
    /\ Asked("ValidateComprehensive", again)
    /\ \E graph \in ComponentGraphs(components, connections),
          graphErrors \in GraphErrors(NewPipelineValidator, components, connections),
          connectivityWarnings \in ConnectivityWarnings(components, connections) :
            result' = pvValidateComprehensive(components, connections, config,
                                              graph, graphErrors,
                                              connectivityWarnings)
    /\ UNCHANGED << buildVars, errorCollector, sub, objectVars, resilienceVars,
                    runVars, seqVars, concVars >>

\* Pipeline.GetTopologyOrder (GetComponentGraph returns no error)
GetTopologyOrder(again) ==
    /\ Asked("GetTopologyOrder", again)
    /\ \E graph \in ComponentGraphs(components, connections) :
            result' = QueryResult("GetTopologyOrder", TRUE, {}, {},
                                  graph.TopologyOrder, << >>, << >>)
    /\ UNCHANGED << buildVars, errorCollector, sub, objectVars, resilienceVars,
                    runVars, seqVars, concVars >>

\* Pipeline.GetCriticalPath (GetComponentGraph returns no error)
GetCriticalPath(again) ==
    /\ Asked("GetCriticalPath", again)
    /\ \E graph \in ComponentGraphs(components, connections) :
            result' = QueryResult("GetCriticalPath", TRUE, {}, {}, << >>,
                                  graph.CriticalPath, << >>)
    /\ UNCHANGED << buildVars, errorCollector, sub, objectVars, resilienceVars,
                    runVars, seqVars, concVars >>

\* a port of a component of the pipeline
PortOf(n, port) == << n, port.PortName >>

\* the ports among ports of component n for which a connection with this
\* component and this port at the given end is found
RECURSIVE UnconnectedPorts(_, _, _, _, _)
UnconnectedPorts(n, ports, i, conns, end) ==
    IF i > Len(ports) THEN << >>
    ELSE LET isConnected ==
                \E k \in DOMAIN conns :
                    IF end = "to"
                    THEN /\ conns[k].ToComponent = n
                         /\ conns[k].ToPort = ports[i].PortName
                    ELSE /\ conns[k].FromComponent = n
                         /\ conns[k].FromPort = ports[i].PortName
         IN (IF isConnected THEN << >> ELSE << PortOf(n, ports[i]) >>)
            \o UnconnectedPorts(n, ports, i + 1, conns, end)

\* Pipeline.InputPorts matching a connection by its port name alone
RECURSIVE PipelineInputPorts_AnyComponent(_, _, _)
PipelineInputPorts_AnyComponent(conns, order, i) ==
    IF i > Len(order) THEN << >>
    ELSE SelectSeq([j \in DOMAIN InputPorts(order[i]) |->
                        PortOf(order[i], InputPorts(order[i])[j])],
                   LAMBDA pt : ~ \E k \in DOMAIN conns : conns[k].ToPort = pt[2])
         \o PipelineInputPorts_AnyComponent(conns, order, i + 1)

\* Pipeline.InputPorts: order is the order in which the components map is
\* ranged, from its entry i on
RECURSIVE PipelineInputPorts(_, _, _)
PipelineInputPorts(conns, order, i) ==
    IF i > Len(order) THEN << >>
    ELSE UnconnectedPorts(order[i], InputPorts(order[i]), 1, conns, "to")
         \o PipelineInputPorts(conns, order, i + 1)

\* Pipeline.OutputPorts
RECURSIVE PipelineOutputPorts(_, _, _)
PipelineOutputPorts(conns, order, i) ==
    IF i > Len(order) THEN << >>
    ELSE UnconnectedPorts(order[i], OutputPorts(order[i]), 1, conns, "from")
         \o PipelineOutputPorts(conns, order, i + 1)

\* a call of Pipeline.InputPorts
CallInputPorts(again) ==
    /\ Asked("InputPorts", again)
    /\ \E ports \in { PipelineInputPorts(connections, order, 1) :
                        order \in Perms(components) } :
            result' = QueryResult("InputPorts", TRUE, {}, {}, << >>, << >>, ports)
    /\ UNCHANGED << buildVars, errorCollector, sub, objectVars, resilienceVars,
                    runVars, seqVars, concVars >>

\* a call of Pipeline.OutputPorts
CallOutputPorts(again) ==
    /\ Asked("OutputPorts", again)
    /\ \E ports \in { PipelineOutputPorts(connections, order, 1) :
                        order \in Perms(components) } :
            result' = QueryResult("OutputPorts", TRUE, {}, {}, << >>, << >>, ports)
    /\ UNCHANGED << buildVars, errorCollector, sub, objectVars, resilienceVars,
                    runVars, seqVars, concVars >>

Build ==
    \/ \E name \in Names : AddComponent(name)
    \/ \E T \in Types, from, to \in Names, fromPort \in OutPortNames,
          toPort \in InPortNames : Connect(T, from, fromPort, to, toPort)
    \/ \E from, to \in Names, fromPort \in OutPortNames, toPort \in InPortNames :
          ConnectWithTransform(from, fromPort, to, toPort)
    \/ \E from, to \in Names, fromPort \in OutPortNames, toPort \in InPortNames :
          ConnectWithBackpressure(from, fromPort, to, toPort)

Next ==
    \/ Build
    \/ ValidateComprehensive(FALSE)
    \/ GetTopologyOrder(FALSE)

Spec == Init /\ [][Next]_vars


(***************************************************************************)
(* Pipelines handed to Run: every pipeline the builder can produce.  A     *)
(* second connection with the endpoints of an earlier one can only come    *)
(* from Connect, which checks the endpoints and declares no transform.     *)
(***************************************************************************)
\* one of the orders in which AddComponent calls give the components comps;
\* no code reads the order, and a run starts from one of them
AttachOrder(comps) == CHOOSE order \in Perms(comps) : TRUE

BoundedSeq(S, n) == UNION { [1..k -> S] : k \in 0..n }

Buildable(comps, conns) ==
    \A j \in DOMAIN conns :
        (\E i \in 1..(j - 1) : ConnName(conns[i]) = ConnName(conns[j]))
            => /\ ~ conns[j].Transform
               /\ \E T \in Types :
                    ConnectError(comps, T, conns[j].FromComponent, conns[j].FromPort,
                                 conns[j].ToComponent, conns[j].ToPort) = ""

\* a built pipeline with engine e set (SetEngine), before Run
InitRun(e) ==
    /\ components \in SUBSET Names
    /\ attached = AttachOrder(components)
    /\ connections \in BoundedSeq(Connections, MaxConns)
    /\ Buildable(components, connections)
    /\ errors \in BoundedSeq({"error"}, MaxErrors)
    /\ engine = e
    /\ config = NewDefaultPipelineConfig
    /\ result = NoResult
    /\ previous = NoResult
    /\ NotRunning
    /\ NewCircuitBreaker(1, 1, 0)
    /\ NewDefaultErrorHandler(0)

Returned(err, component) ==
    [status |-> "returned", err |-> err, component |-> component]

Running == [status |-> "running", err |-> "", component |-> ""]

\* the value a component's Process returns on an output port
Value(n, port) == << n, port >>

\* Process of the catalogue components returns one value per output port
ProcessOutputs(n) == { OutputPorts(n)[i].PortName : i \in DOMAIN OutputPorts(n) }

(***************************************************************************)
(* execution.Graph and execution.DefaultEngine                             *)
(***************************************************************************)
\* VisitNeighbors that enqueues a neighbor one decrement early
\* ("g.inDegree[neighbor] <= 1" in place of "== 0")
RECURSIVE VisitNeighbors_EarlyEnqueue(_, _, _, _)
VisitNeighbors_EarlyEnqueue(edges, i, queue, inDegree) ==
    IF i > Len(edges)
    THEN [queue |-> queue, inDegree |-> inDegree]
    ELSE LET neighbor == edges[i].ToComponent
             d == inDegree[neighbor] - 1
         IN VisitNeighbors_EarlyEnqueue(edges, i + 1,
                IF d \in {0, 1} THEN Append(queue, neighbor) ELSE queue,
                [inDegree EXCEPT ![neighbor] = d])

\* the loop over g.edges[node] inside TopologicalSort
RECURSIVE VisitNeighbors(_, _, _, _)
VisitNeighbors(edges, i, queue, inDegree) ==
    IF i > Len(edges)
    THEN [queue |-> queue, inDegree |-> inDegree]
    ELSE LET neighbor == edges[i].ToComponent
             d == inDegree[neighbor] - 1
         IN VisitNeighbors(edges, i + 1,
                IF d = 0 THEN Append(queue, neighbor) ELSE queue,
                [inDegree EXCEPT ![neighbor] = d])

\* the "for len(queue) > 0" loop of TopologicalSort; g.edges is keyed by the
\* source name of every connection, registered or not
RECURSIVE TopologicalSortLoop(_, _, _, _)
TopologicalSortLoop(conns, queue, inDegree, order) ==
    IF queue = << >>
    THEN [sorted |-> order, inDegree |-> inDegree]
    ELSE LET node == Head(queue)
             r == VisitNeighbors(SelectSeq(conns, LAMBDA c : c.FromComponent = node),
                                 1, Tail(queue), inDegree)
         IN TopologicalSortLoop(conns, r.queue, r.inDegree, Append(order, node))

\* NewGraph followed by TopologicalSort; queue0 is the order in which the
\* range over g.inDegree yields the names of in-degree 0
TopologicalSort(comps, conns, queue0) ==
    LET order == TopologicalSortLoop(conns, queue0,
                                     [n \in Names |-> InDegree(conns, n)],
                                     << >>).sorted
    IN [err |-> Len(order) # Cardinality(comps), sorted |-> order]

\* DefaultEngine.Run, input gathering: the last connection that enters the
\* port decides the value
GatherInput(conns, d, name, port) ==
    LET hits == { k \in DOMAIN conns :
                    conns[k].ToComponent = name /\ conns[k].ToPort = port }
    IN IF hits = {} THEN Nil
       ELSE LET k == CHOOSE i \in hits : \A j \in hits : j <= i
            IN d[<< conns[k].FromComponent, conns[k].FromPort >>]

\* DefaultEngine.Run up to the loop over sorted
DefaultEngineRun ==
    \E queue0 \in Perms(ZeroInDegree(components, connections)) :
        LET t == TopologicalSort(components, connections, queue0)
        IN IF t.err
           THEN /\ runResult' = Returned("error sorting pipeline graph", "")
                /\ UNCHANGED << sorted, pos >>
           ELSE /\ runResult' = Running
                /\ sorted' = t.sorted
                /\ pos' = 1

\* DefaultEngineStep that notes a Process error and goes on with the loop
DefaultEngineStep_GoOn ==
    /\ engine = "default"
    /\ runResult.status = "running"
    /\ pos <= Len(sorted)
    /\ sorted[pos] \in components
    /\ invoked' = [invoked EXCEPT ![sorted[pos]] = @ + 1]
    /\ pos' = pos + 1
    /\ \E ok \in BOOLEAN :
        procErr' = IF ok THEN procErr ELSE procErr \cup {sorted[pos]}
    /\ UNCHANGED << buildVars, previous, errorCollector, sub, objectVars, resilienceVars,
                    result, runResult, compInputs, sorted, data, concVars >>

\* DefaultEngine.Run, one iteration of the loop over sorted
DefaultEngineStep ==
    /\ engine = "default"
    /\ runResult.status = "running"
    /\ pos <= Len(sorted)
    /\ LET name == sorted[pos]
       IN IF name \notin components
          THEN \* components[name] is a nil Component: the call panics
               /\ runResult' = [status |-> "panicked", err |-> "nil component",
                                component |-> name]
               /\ UNCHANGED << invoked, procErr, compInputs, pos, data >>
          ELSE /\ compInputs' =
                    [compInputs EXCEPT ![name] =
                        [p \in InPortNames |->
                            GatherInput(connections, data, name, p)]]
               /\ invoked' = [invoked EXCEPT ![name] = @ + 1]
               /\ \E ok \in BOOLEAN :
                    IF ok
                    THEN /\ data' = [k \in OutputKeys |->
                                        IF k[1] = name /\ k[2] \in ProcessOutputs(name)
                                        THEN Value(name, k[2]) ELSE data[k]]
                         /\ pos' = pos + 1
                         /\ UNCHANGED << runResult, procErr >>
                    ELSE /\ procErr' = procErr \cup {name}
                         /\ runResult' = Returned("error executing component", name)
                         /\ UNCHANGED << data, pos >>
    /\ UNCHANGED << buildVars, previous, errorCollector, sub, objectVars, resilienceVars,
                    result, sorted, concVars >>

\* DefaultEngine.Run, after the loop
DefaultEngineReturn ==
    /\ engine = "default"
    /\ runResult.status = "running"
    /\ pos > Len(sorted)
    /\ runResult' = Returned("", "")
    /\ UNCHANGED << buildVars, previous, errorCollector, sub, objectVars, resilienceVars,
                    result, invoked, procErr, compInputs, seqVars, concVars >>

(***************************************************************************)
(* execution.ConcurrentEngine                                              *)
(***************************************************************************)
\* the queue a connection is read from: channels is keyed by source port
ChName(conn) == << conn.FromComponent, conn.FromPort >>

\* the inputs and outputs maps the engine's Run is handed: nil from
\* Pipeline.Run, the channels of the call from Pipeline.Process
ExternalIn(port) == sub.inputChans[port].made
ExternalOut(port) == sub.outputChans[port].made

\* the read of the external channel of a port, put as a connection from ""
ExternalRead(name, port) == Connection("", port, name, port, FALSE)

\* what a worker reads, in the order it reads: input ports in declared
\* order; for a port whose name is a key of inputs the external channel,
\* else the connections that enter the port, in pipeline order
RECURSIVE InboundFrom(_, _, _)
InboundFrom(conns, name, i) ==
    IF i > Len(InputPorts(name)) THEN << >>
    ELSE (IF ExternalIn(InputPorts(name)[i].PortName)
          THEN << ExternalRead(name, InputPorts(name)[i].PortName) >>
          ELSE SelectSeq(conns, LAMBDA c :
                            /\ c.ToComponent = name
                            /\ c.ToPort = InputPorts(name)[i].PortName))
            \o InboundFrom(conns, name, i + 1)

Inbound(conns, name) == InboundFrom(conns, name, 1)

\* the output ports of name for which Run made a queue
HasChannel(conns, name, port) ==
    \E k \in DOMAIN conns : ChName(conns[k]) = << name, port >>

\* ConcurrentEngine.Run up to the start of the workers
ConcurrentEngineRun ==
    /\ runResult' = Running
    /\ wpc' = [n \in Names |-> IF n \in components THEN "gather" ELSE "none"]

\* Pipeline.Run
Run ==
    /\ runResult.status = "idle"
    /\ IF Len(errors) > 0
       THEN /\ runResult' = Returned("pipeline has construction errors", "")
            /\ UNCHANGED << sorted, pos, wpc >>
       ELSE IF engine = "nil"
       THEN /\ runResult' = Returned("execution engine is not set", "")
            /\ UNCHANGED << sorted, pos, wpc >>
       ELSE IF engine = "default"
       THEN DefaultEngineRun /\ UNCHANGED wpc
       ELSE ConcurrentEngineRun /\ UNCHANGED << sorted, pos >>
    /\ UNCHANGED << buildVars, previous, errorCollector, sub, objectVars, resilienceVars,
                    result, invoked, procErr, compInputs, data,
                    nread, pending, errCh, closed, ctxCancelled >>

\* the run is one of a ConcurrentEngine: the engine set on the pipeline, or
\* the engine of defaultEngineCreator when Pipeline.Process runs the pipeline
ConcurrentEngineRuns == engine = "concurrent" \/ sub.pc # "idle"

\* the engine's Run was entered
EngineEntered ==
    /\ runResult.status \notin { "idle", "started" }
    /\ runResult.err \notin { "pipeline has construction errors",
                              "execution engine is not set" }

\* worker: "data, ok = <-channels[chName]" together with the matching
\* "ch <- data" of the worker that owns the queue (the queues are unbuffered);
\* a value of a port whose name is a key of outputs goes to that external
\* channel and is not sent on the queue
Receive(r) ==
    /\ ConcurrentEngineRuns
    /\ runResult.status # "panicked"
    /\ wpc[r] = "gather"
    /\ nread[r] < Len(Inbound(connections, r))
    /\ LET conn == Inbound(connections, r)[nread[r] + 1]
           s == conn.FromComponent
       IN /\ s # ""
          /\ IF closed
             THEN /\ errCh' = Append(errCh, [err |-> "channel closed",
                                             component |-> r])
                  /\ wpc' = [wpc EXCEPT ![r] = "returned"]
                  /\ UNCHANGED << nread, pending, compInputs >>
             ELSE /\ wpc[s] = "publish"
                  /\ pending[s] # << >>
                  /\ Head(pending[s]) = conn.FromPort
                  /\ ~ ExternalOut(conn.FromPort)
                  /\ nread' = [nread EXCEPT ![r] = @ + 1]
                  /\ compInputs' = [compInputs EXCEPT ![r][conn.ToPort] =
                                       Value(s, conn.FromPort)]
                  /\ pending' = [pending EXCEPT ![s] = Tail(@)]
                  /\ wpc' = [wpc EXCEPT ![s] =
                               IF Tail(pending[s]) = << >> THEN "returned" ELSE @]
                  /\ UNCHANGED errCh
    /\ UNCHANGED << buildVars, previous, errorCollector, sub, objectVars, resilienceVars,
                    result, runResult, invoked, procErr, seqVars,
                    closed, ctxCancelled >>

\* Process of a worker that goes back to reading its inputs after a success
Process_Loop(n) ==
    /\ ConcurrentEngineRuns
    /\ wpc[n] = "gather"
    /\ nread[n] = Len(Inbound(connections, n))
    /\ invoked[n] < 2
    /\ invoked' = [invoked EXCEPT ![n] = @ + 1]
    /\ nread' = [nread EXCEPT ![n] = 0]
    /\ UNCHANGED << buildVars, previous, errorCollector, sub, objectVars, resilienceVars,
                    result, runResult, procErr, compInputs, seqVars,
                    wpc, pending, errCh, closed, ctxCancelled >>

\* worker: component.Process and what follows it up to the first send
Process(n) ==
    /\ ConcurrentEngineRuns
    /\ runResult.status # "panicked"
    /\ wpc[n] = "gather"
    /\ nread[n] = Len(Inbound(connections, n))
    /\ invoked' = [invoked EXCEPT ![n] = @ + 1]
    /\ \E ok \in BOOLEAN :
        IF ok
        THEN \E out \in Perms({ port \in ProcessOutputs(n) :
                                  \/ ExternalOut(port)
                                  \/ HasChannel(connections, n, port) }) :
                /\ pending' = [pending EXCEPT ![n] = out]
                /\ wpc' = [wpc EXCEPT ![n] =
                             IF out = << >> THEN "returned" ELSE "publish"]
                /\ UNCHANGED << errCh, procErr >>
        ELSE /\ errCh' = Append(errCh, [err |-> "error executing component",
                                        component |-> n])
             /\ procErr' = procErr \cup {n}
             /\ wpc' = [wpc EXCEPT ![n] = "returned"]
             /\ UNCHANGED pending
    /\ UNCHANGED << buildVars, previous, errorCollector, sub, objectVars, resilienceVars,
                    result, runResult, compInputs, seqVars, nread,
                    closed, ctxCancelled >>

\* worker: "data = <-ch" on the external input channel of a port
ReceiveExternal(r) ==
    /\ ConcurrentEngineRuns
    /\ runResult.status # "panicked"
    /\ wpc[r] = "gather"
    /\ nread[r] < Len(Inbound(connections, r))
    /\ LET conn == Inbound(connections, r)[nread[r] + 1]
       IN /\ conn.FromComponent = ""
          /\ sub.inputChans[conn.ToPort].buf # << >>
          /\ compInputs' = [compInputs EXCEPT ![r][conn.ToPort] =
                               Head(sub.inputChans[conn.ToPort].buf)]
          /\ sub' = [sub EXCEPT !.inputChans[conn.ToPort].buf = Tail(@)]
          /\ nread' = [nread EXCEPT ![r] = @ + 1]
    /\ UNCHANGED << buildVars, previous, errorCollector, objectVars, resilienceVars,
                    result, runResult, invoked, procErr, seqVars,
                    wpc, pending, errCh, closed, ctxCancelled >>

\* worker: "ch <- data" on the external output channel of a port: the send
\* waits while the buffer of the channel is full, and panics once the
\* channel is closed
SendExternal(s) ==
    /\ ConcurrentEngineRuns
    /\ runResult.status # "panicked"
    /\ wpc[s] = "publish"
    /\ pending[s] # << >>
    /\ LET port == Head(pending[s])
           ch == sub.outputChans[port]
       IN /\ ch.made
          /\ IF ch.closed
             THEN /\ runResult' = [status |-> "panicked",
                                   err |-> "send on closed channel",
                                   component |-> s]
                  /\ UNCHANGED << sub, pending, wpc >>
             ELSE /\ Len(ch.buf) < 1
                  /\ sub' = [sub EXCEPT !.outputChans[port].buf =
                                Append(@, Value(s, port))]
                  /\ pending' = [pending EXCEPT ![s] = Tail(@)]
                  /\ wpc' = [wpc EXCEPT ![s] =
                               IF Tail(pending[s]) = << >> THEN "returned" ELSE @]
                  /\ UNCHANGED runResult
    /\ UNCHANGED << buildVars, previous, errorCollector, objectVars, resilienceVars,
                    result, invoked, procErr, compInputs, seqVars,
                    nread, errCh, closed, ctxCancelled >>

\* the closing goroutine without its wg.Wait()
CloseChannels_NoWait ==
    /\ ConcurrentEngineRuns
    /\ EngineEntered
    /\ ~ closed
    /\ closed' = TRUE
    /\ UNCHANGED << buildVars, previous, errorCollector, sub, objectVars, resilienceVars,
                    result, runVars, seqVars, wpc, nread, pending,
                    errCh, ctxCancelled >>

\* the goroutine that waits for the workers and closes errCh and the queues
CloseChannels ==
    /\ ConcurrentEngineRuns
    /\ EngineEntered
    /\ ~ closed
    /\ \A n \in components : wpc[n] = "returned"
    /\ closed' = TRUE
    /\ UNCHANGED << buildVars, previous, errorCollector, sub, objectVars, resilienceVars,
                    result, runVars, seqVars, wpc, nread, pending,
                    errCh, ctxCancelled >>

\* the range over errCh without its "return err": the error is received and
\* dropped
ReturnError_Dropped ==
    /\ ConcurrentEngineRuns
    /\ runResult.status = "running"
    /\ errCh # << >>
    /\ errCh' = Tail(errCh)
    /\ UNCHANGED << buildVars, previous, errorCollector, sub, objectVars, resilienceVars,
                    result, runVars, seqVars,
                    wpc, nread, pending, closed, ctxCancelled >>

\* Run: "for err := range errCh" receives an error and returns it
ReturnError ==
    /\ ConcurrentEngineRuns
    /\ runResult.status = "running"
    /\ errCh # << >>
    /\ runResult' = Returned(Head(errCh).err, Head(errCh).component)
    /\ errCh' = Tail(errCh)
    /\ UNCHANGED << buildVars, previous, errorCollector, sub, objectVars, resilienceVars,
                    result, invoked, procErr, compInputs, seqVars,
                    wpc, nread, pending, closed, ctxCancelled >>

\* Run: the range over errCh ends on the closed, empty channel
ReturnNil ==
    /\ ConcurrentEngineRuns
    /\ runResult.status = "running"
    /\ closed
    /\ errCh = << >>
    /\ runResult' = Returned("", "")
    /\ UNCHANGED << buildVars, previous, errorCollector, sub, objectVars, resilienceVars,
                    result, invoked, procErr, compInputs, seqVars,
                    concVars >>

\* the caller cancels the context of the run
Cancel ==
    /\ ConcurrentEngineRuns
    /\ runResult.status = "running"
    /\ ~ ctxCancelled
    /\ ctxCancelled' = TRUE
    /\ UNCHANGED << buildVars, previous, errorCollector, sub, objectVars, resilienceVars,
                    result, runVars, seqVars, wpc, nread, pending,
                    errCh, closed >>

\* Pipeline.AddPipelineError with an error whose Component() is component:
\* ErrorCollector.Collect appends it (p.pipelineErrors holds the same list)
AddPipelineError(component) ==
    /\ Len(errorCollector) < MaxCollected
    /\ errorCollector' = Append(errorCollector, component)
    /\ UNCHANGED << buildVars, result, previous, runVars, seqVars, concVars,
                    sub, objectVars, resilienceVars >>

InitSeq == InitRun("default")

NextSeq ==
    \/ Run
    \/ DefaultEngineStep
    \/ DefaultEngineReturn

SpecSeq == InitSeq /\ [][NextSeq]_vars

InitConc == InitRun("concurrent")

NextConc ==
    \/ Run
    \/ \E r \in Names : Receive(r)
    \/ \E n \in Names : Process(n)
    \/ CloseChannels
    \/ ReturnError
    \/ ReturnNil
    \/ Cancel

SpecConc == InitConc /\ [][NextConc]_vars

\* the Go scheduler runs every goroutine that can take a step
FairSpecConc == SpecConc /\ WF_vars(NextConc)

(***************************************************************************)
(* Graph notions the properties are stated with                            *)
(***************************************************************************)
Edges(conns) ==
    { << conns[k].FromComponent, conns[k].ToComponent >> : k \in DOMAIN conns }

RECURSIVE Closure(_, _, _)
Closure(E, R, k) ==
    IF k = 0 THEN R
    ELSE Closure(E,
                 R \cup { << x[1], y[2] >> : << x, y >> \in
                            { z \in R \X E : z[1][2] = z[2][1] } },
                 k - 1)

\* the pairs joined by a directed path of one or more connections
Reach(conns) == Closure(Edges(conns), Edges(conns), Cardinality(Names))

\* the connections contain a directed cycle (a self-loop included)
HasDirectedCycle(conns) == \E n \in Names : << n, n >> \in Reach(conns)

\* every connection joins two registered components
Closed(comps, conns) ==
    \A k \in DOMAIN conns :
        conns[k].FromComponent \in comps /\ conns[k].ToComponent \in comps

PositionsOf(order, n) == { i \in DOMAIN order : order[i] = n }

\* order holds every component exactly once, every connection's source
\* before its sink
IsTopologicalOrder(order, comps, conns) ==
    /\ Len(order) = Cardinality(comps)
    /\ Range(order) = comps
    /\ \A k \in DOMAIN conns :
          \A i \in PositionsOf(order, conns[k].FromComponent),
             j \in PositionsOf(order, conns[k].ToComponent) : i < j
    /\ \A k \in DOMAIN conns :
          /\ PositionsOf(order, conns[k].FromComponent) # {}
          /\ PositionsOf(order, conns[k].ToComponent) # {}

(***************************************************************************)
(* Properties of the validator and of the builder                          *)
(***************************************************************************)
\* C1, as stated: for every pipeline whose connections form no cycle, the
\* order GetTopologyOrder returns (and the one of the graph that
\* ValidateComprehensive builds) holds every component exactly once, every
\* connection's source before its sink.
C1_AnyAcyclicPipeline ==
    (result.op # "none" /\ ~ HasDirectedCycle(connections))
        => IsTopologicalOrder(result.TopologyOrder, components, connections)

\* C1, amended: the same for every pipeline whose connections form no cycle
\* and join only components that were added to the pipeline.
C1_TopologyOrder ==
    (/\ result.op # "none"
     /\ ~ HasDirectedCycle(connections)
     /\ Closed(components, connections))
        => IsTopologicalOrder(result.TopologyOrder, components, connections)

C1_Witness ==
    /\ result.op = "GetTopologyOrder"
    /\ ~ HasDirectedCycle(connections)
    /\ Closed(components, connections)
    /\ components = Names
    /\ Len(connections) >= 2
    /\ Len(result.TopologyOrder) = 3

HasCycleError(r) == \E e \in r.Errors : e.Type = "Cycle"

\* C2, as stated: for every pipeline whose connections contain a directed
\* cycle, ValidateComprehensive returns Valid = false with an error of type
\* Cycle, the graph build does not fail, and the topology order is empty.
C2_AnyCyclicPipeline ==
    (result.op = "ValidateComprehensive" /\ HasDirectedCycle(connections))
        => /\ ~ result.Valid
           /\ HasCycleError(result)
           /\ ~ \E e \in result.Errors : e.Type = "Unknown"
           /\ result.TopologyOrder = << >>

\* C2, amended: the same for every pipeline whose connections contain a
\* directed cycle and join only components that were added to the pipeline.
C2_CycleRejected ==
    (/\ result.op = "ValidateComprehensive"
     /\ HasDirectedCycle(connections)
     /\ Closed(components, connections))
        => /\ ~ result.Valid
           /\ HasCycleError(result)
           /\ ~ \E e \in result.Errors : e.Type = "Unknown"
           /\ result.TopologyOrder = << >>

C2_Witness ==
    /\ result.op = "ValidateComprehensive"
    /\ Closed(components, connections)
    /\ << "a", "b" >> \in Edges(connections)
    /\ << "b", "a" >> \in Edges(connections)
    /\ HasCycleError(result)

\* the required input ports of registered components that no connection targets
UnconnectedRequired(comps, conns) ==
    { x \in comps \X InPortNames :
        /\ \E i \in DOMAIN InputPorts(x[1]) :
              /\ InputPorts(x[1])[i].PortName = x[2]
              /\ InputPorts(x[1])[i].IsRequired
        /\ ~ \E k \in DOMAIN conns :
              conns[k].ToComponent = x[1] /\ conns[k].ToPort = x[2] }

\* C3: for every component with a required input port that is the target of
\* no connection, ValidateComprehensive returns Valid = false and a
\* MissingPort error that carries the component's name and the port's name.
C3_MissingRequiredPort ==
    result.op = "ValidateComprehensive"
        => \A x \in UnconnectedRequired(components, connections) :
              /\ ~ result.Valid
              /\ \E e \in result.Errors :
                    e.Type = "MissingPort" /\ e.Component = x[1] /\ e.Port = x[2]

C3_Witness ==
    /\ result.op = "ValidateComprehensive"
    /\ << "b", "in" >> \in UnconnectedRequired(components, connections)
    /\ \E k \in DOMAIN connections : connections[k].ToComponent = "c"
    /\ ~ result.Valid

\* the connections both of whose ports exist on registered components
Typed(comps, conns) ==
    { k \in DOMAIN conns :
        /\ conns[k].FromComponent \in comps
        /\ conns[k].ToComponent \in comps
        /\ PortNamed(OutputPorts(conns[k].FromComponent), conns[k].FromPort) # << >>
        /\ PortNamed(InputPorts(conns[k].ToComponent), conns[k].ToPort) # << >> }

SameType(conn) ==
    PortNamed(OutputPorts(conn.FromComponent), conn.FromPort)[1].PortType
        = PortNamed(InputPorts(conn.ToComponent), conn.ToPort)[1].PortType

HasTypeMismatch(r, conn) ==
    \E e \in r.Errors : e.Type = "TypeMismatch" /\ e.Connection = ConnName(conn)

\* C4: ValidateComprehensive reports a TypeMismatch error (and Valid = false)
\* for every connection whose port types differ and that declares no
\* transform, and reports none for a connection whose port types are equal
\* or on which a transform is declared.
C4_TypeMismatchUnlessTransform ==
    result.op = "ValidateComprehensive"
        => \A k \in Typed(components, connections) :
              LET conn == connections[k]
              IN IF ~ SameType(conn) /\ ~ conn.Transform
                 THEN HasTypeMismatch(result, conn) /\ ~ result.Valid
                 ELSE ~ HasTypeMismatch(result, conn)

\* C5: no sink input port has more than one inbound connection.
C5_NoFanIn ==
    \A i, j \in DOMAIN connections :
        (/\ connections[i].ToComponent = connections[j].ToComponent
         /\ connections[i].ToPort = connections[j].ToPort) => i = j


(***************************************************************************)
(* Properties of the engines                                               *)
(***************************************************************************)
\* no input port is the target of two connections
SingleInbound(conns) ==
    \A i, j \in DOMAIN conns :
        (conns[i].ToComponent = conns[j].ToComponent
            /\ conns[i].ToPort = conns[j].ToPort) => i = j

\* C6: in a ConcurrentEngine run the value produced on an output port is
\* delivered to every sink the port is connected to: once the source's worker
\* is through with its sends, each sink holds the value on its input port.
C6_FanOutDelivered ==
    (/\ engine = "concurrent"
     /\ Closed(components, connections)
     /\ ~ HasDirectedCycle(connections)
     /\ SingleInbound(connections))
        => \A k \in DOMAIN connections :
              LET conn == connections[k]
              IN (/\ wpc[conn.FromComponent] = "returned"
                  /\ conn.FromComponent \notin procErr)
                    => compInputs[conn.ToComponent][conn.ToPort]
                          = Value(conn.FromComponent, conn.FromPort)

\* no output port is the source of two connections
SingleOutbound(conns) ==
    \A i, j \in DOMAIN conns : ChName(conns[i]) = ChName(conns[j]) => i = j

\* C7: once the context of a ConcurrentEngine run is cancelled, every worker
\* (one blocked on a queue read or write included) returns, and Run returns.
\* Stated for the runs of pipelines that are acyclic, join only registered
\* components and have one connection per port.
C7_CancelEndsRun ==
    (/\ ctxCancelled
     /\ Closed(components, connections)
     /\ ~ HasDirectedCycle(connections)
     /\ SingleInbound(connections)
     /\ SingleOutbound(connections))
        ~> (/\ \A n \in components : wpc[n] = "returned"
            /\ runResult.status = "returned")

DefaultEngineRan == engine = "default" /\ EngineEntered

\* what C8 says of a run: no component is invoked twice, none before a
\* component that feeds it, and all of them once the run has returned
ExactlyOnceInOrder ==
    /\ \A n \in Names : invoked[n] <= 1
    /\ \A k \in DOMAIN connections :
          (/\ connections[k].ToComponent \in components
           /\ connections[k].FromComponent \in components
           /\ invoked[connections[k].ToComponent] >= 1)
              => invoked[connections[k].FromComponent] >= 1
    /\ (runResult.status = "returned" /\ procErr = {})
          => \A n \in components : invoked[n] = 1

\* C8, as stated: in a DefaultEngine run of an acyclic pipeline in which
\* every Process call succeeds, every component is invoked exactly once, and
\* only after every component that feeds one of its input ports.
C8_AnyAcyclicRun ==
    (DefaultEngineRan /\ ~ HasDirectedCycle(connections))
        => ExactlyOnceInOrder

\* C8, amended: the same for an acyclic pipeline whose connections join only
\* components that were added to the pipeline.
C8_ExactlyOnceInOrder ==
    (/\ DefaultEngineRan
     /\ ~ HasDirectedCycle(connections)
     /\ Closed(components, connections))
        => ExactlyOnceInOrder

C8_Witness ==
    /\ DefaultEngineRan
    /\ runResult = Returned("", "")
    /\ components = Names
    /\ Closed(components, connections)
    /\ Cardinality(Edges(connections)) = 2
    /\ \A n \in Names : invoked[n] = 1

\* C9: in a DefaultEngine run, when a Process call fails the run returns at
\* once with an error that names that component, and no component later in
\* the topological order is invoked.
C9_FirstErrorReturned ==
    (engine = "default" /\ procErr # {})
        => /\ runResult.status = "returned"
           /\ runResult.err = "error executing component"
           /\ procErr = {runResult.component}
           /\ sorted[pos] = runResult.component
           /\ \A i \in (pos + 1)..Len(sorted) : invoked[sorted[i]] = 0

C9_Witness ==
    /\ engine = "default"
    /\ procErr = {"b"}
    /\ runResult = Returned("error executing component", "b")
    /\ invoked["a"] = 1
    /\ "c" \in components
    /\ invoked["c"] = 0

\* C10: in a ConcurrentEngine run each component's Process is invoked at most
\* once, under every interleaving and whether or not other components fail.
C10_AtMostOnce ==
    engine = "concurrent" => \A n \in Names : invoked[n] <= 1

C10_Witness ==
    /\ engine = "concurrent"
    /\ "a" \in procErr
    /\ invoked["b"] = 1
    /\ "b" \notin procErr
    /\ wpc["c"] = "gather"

\* C11: in a ConcurrentEngine run errCh and the queues are closed only after
\* every worker has returned: no worker is still reading or sending when
\* they are closed, and no worker ever reports "channel closed".
C11_ClosedAfterWorkers ==
    /\ closed => \A n \in components : wpc[n] = "returned"
    /\ \A i \in DOMAIN errCh : errCh[i].err # "channel closed"
    /\ runResult.err # "channel closed"

C11_Witness ==
    /\ closed
    /\ Cardinality(components) >= 2
    /\ \E n \in components : nread[n] > 0
    /\ \E n \in components : n \in procErr

\* C12: in a ConcurrentEngine run in which a Process call fails, Run in the
\* end returns the "error executing component" error of a component whose
\* Process failed; and Run returns nil only when no Process call failed.
C12_ProcessErrorReturned ==
    /\ (engine = "concurrent" /\ procErr # {})
          ~> (/\ runResult.status = "returned"
              /\ runResult.err = "error executing component"
              /\ runResult.component \in procErr)
    /\ []((engine = "concurrent" /\ runResult = Returned("", ""))
              => procErr = {})

C12_Witness ==
    /\ engine = "concurrent"
    /\ Cardinality(procErr) = 2
    /\ runResult.status = "returned"
    /\ runResult.component \in procErr
    /\ errCh # << >>

\* ErrorCollector.GetErrorsByComponent(n) is not empty
Collected(n) == \E i \in DOMAIN errorCollector : errorCollector[i] = n

\* C13: after a run in which the Process calls of several components failed,
\* Run has returned one error and the error collector of the pipeline holds
\* an error of every one of those components.
C13_AllFailuresCollected ==
    (/\ engine = "concurrent"
     /\ runResult.status = "returned"
     /\ Cardinality(procErr) >= 2
     /\ \A n \in components : wpc[n] = "returned")
        => \A n \in procErr : Collected(n)

\* the inputs map DefaultEngine.Run hands to the Process of name once every
\* component before it in the order has published its outputs
DefaultEngineInputs(conns, name) ==
    [p \in InPortNames |->
        GatherInput(conns, [k \in OutputKeys |-> Value(k[1], k[2])], name, p)]

\* C14: for an acyclic pipeline (connections between registered components)
\* whose Process calls do not fail, the ConcurrentEngine run completes as the
\* DefaultEngine run does, and every component has been handed the inputs
\* the DefaultEngine run hands it, and so has produced the same outputs.
C14_SameAsDefaultEngine ==
    (/\ engine = "concurrent"
     /\ EngineEntered
     /\ Closed(components, connections)
     /\ ~ HasDirectedCycle(connections))
        ~> \/ procErr # {}
           \/ /\ runResult = Returned("", "")
              /\ \A n \in components :
                    /\ invoked[n] = 1
                    /\ compInputs[n] = DefaultEngineInputs(connections, n)

(***************************************************************************)
(* BaseCircuitBreaker.                                                     *)
(***************************************************************************)
\* onFailure without the "cb.state == HalfOpen" test
onFailure_CountOnly(b, cfg, t) ==
    LET counted == [b EXCEPT !.failureCount = @ + 1, !.lastFailureTime = t]
    IN IF counted.failureCount >= cfg.failureThreshold
       THEN [counted EXCEPT !.state = "Open", !.successCount = 0]
       ELSE counted

\* onFailure
onFailure(b, cfg, t) ==
    LET counted == [b EXCEPT !.failureCount = @ + 1, !.lastFailureTime = t]
    IN IF b.state = "HalfOpen" \/ counted.failureCount >= cfg.failureThreshold
       THEN [counted EXCEPT !.state = "Open", !.successCount = 0]
       ELSE counted

\* onSuccess without "cb.failureCount = 0"
onSuccess_NoReset(b, cfg) ==
    IF b.state = "HalfOpen"
    THEN LET counted == [b EXCEPT !.successCount = @ + 1]
         IN IF counted.successCount >= cfg.successThreshold
            THEN [counted EXCEPT !.state = "Closed"]
            ELSE counted
    ELSE b

\* onSuccess
onSuccess(b, cfg) ==
    LET reset == [b EXCEPT !.failureCount = 0]
    IN IF b.state = "HalfOpen"
       THEN LET counted == [reset EXCEPT !.successCount = @ + 1]
            IN IF counted.successCount >= cfg.successThreshold
               THEN [counted EXCEPT !.state = "Closed"]
               ELSE counted
       ELSE reset

\* time.Since(cb.lastFailureTime) > cb.timeout
TimedOut == now - cb.lastFailureTime > cbConfig.timeout

\* Execute: "state := cb.state" under the mutex
ExecuteBegin(c) ==
    /\ calls[c].pc = "idle"
    /\ calls' = [calls EXCEPT ![c] =
                    [pc |-> "switch", state |-> cb.state, ret |-> "none"]]
    /\ UNCHANGED << pipelineVars, ehVars, cb, cbConfig, now,
                    consecutiveFailures, halfOpenSuccesses >>

\* Execute without the "return" of case Open: fn() is called all the same
ExecuteSwitch_NoFailFast(c) ==
    /\ calls[c].pc = "switch"
    /\ calls' = [calls EXCEPT ![c] =
                    IF calls[c].state = "Open" /\ TimedOut
                    THEN [@ EXCEPT !.pc = "halfopen"]
                    ELSE [@ EXCEPT !.pc = "fn"]]
    /\ UNCHANGED << pipelineVars, ehVars, cb, cbConfig, now,
                    consecutiveFailures, halfOpenSuccesses >>

\* Execute: the switch on the state that was read; lastFailureTime is read
\* without the mutex, and the read yields the value of before or of after a
\* write that runs at the same time, as this step before or after it does
ExecuteSwitch(c) ==
    /\ calls[c].pc = "switch"
    /\ calls' = [calls EXCEPT ![c] =
                    IF calls[c].state = "Open"
                    THEN IF TimedOut
                         THEN [@ EXCEPT !.pc = "halfopen"]
                         ELSE [@ EXCEPT !.pc = "idle", !.ret = "open"]
                    ELSE [@ EXCEPT !.pc = "fn"]]
    /\ UNCHANGED << pipelineVars, ehVars, cb, cbConfig, now,
                    consecutiveFailures, halfOpenSuccesses >>

\* Execute, case Open after the timeout: HalfOpen under the mutex, then fn()
ExecuteHalfOpen(c) ==
    /\ calls[c].pc = "halfopen"
    /\ cb' = [cb EXCEPT !.state = "HalfOpen", !.successCount = 0]
    /\ calls' = [calls EXCEPT ![c].pc = "fn"]
    /\ halfOpenSuccesses' = IF cb.state = "HalfOpen" THEN halfOpenSuccesses ELSE 0
    /\ UNCHANGED << pipelineVars, ehVars, cbConfig, now, consecutiveFailures >>

\* Execute: fn() returns, then onFailure or onSuccess under the mutex
ExecuteEnd(c) ==
    /\ calls[c].pc = "fn"
    /\ \E ok \in BOOLEAN :
        IF ok
        THEN /\ cb.state = "HalfOpen" => halfOpenSuccesses < MaxCount
             /\ cb' = onSuccess(cb, cbConfig)
             /\ calls' = [calls EXCEPT ![c] = [@ EXCEPT !.pc = "idle", !.ret = "ok"]]
             /\ consecutiveFailures' = 0
             /\ halfOpenSuccesses' =
                    IF cb.state = "HalfOpen" THEN halfOpenSuccesses + 1
                    ELSE halfOpenSuccesses
        ELSE /\ cb.failureCount < MaxCount
             /\ cb' = onFailure(cb, cbConfig, now)
             /\ calls' = [calls EXCEPT ![c] = [@ EXCEPT !.pc = "idle", !.ret = "err"]]
             /\ consecutiveFailures' = consecutiveFailures + 1
             /\ halfOpenSuccesses' = 0
    /\ UNCHANGED << pipelineVars, ehVars, cbConfig, now >>

\* Reset
Reset ==
    /\ cb' = [cb EXCEPT !.state = "Closed", !.failureCount = 0, !.successCount = 0]
    /\ consecutiveFailures' = 0
    /\ halfOpenSuccesses' = 0
    /\ UNCHANGED << pipelineVars, ehVars, cbConfig, now, calls >>

\* time passes
Tick ==
    /\ now < MaxTime
    /\ now' = now + 1
    /\ UNCHANGED << pipelineVars, ehVars, cb, cbConfig, calls,
                    consecutiveFailures, halfOpenSuccesses >>

InitBreaker ==
    /\ NewPipeline
    /\ NewDefaultErrorHandler(0)
    /\ \E failureThreshold, successThreshold \in 1..MaxThreshold,
          timeout \in 0..MaxTimeout :
            NewCircuitBreaker(failureThreshold, successThreshold, timeout)

NextBreaker ==
    \/ \E c \in Callers : ExecuteBegin(c)
    \/ \E c \in Callers : ExecuteSwitch(c)
    \/ \E c \in Callers : ExecuteHalfOpen(c)
    \/ \E c \in Callers : ExecuteEnd(c)
    \/ Reset
    \/ Tick

SpecBreaker == InitBreaker /\ [][NextBreaker]_vars

\* C15: a Closed breaker opens exactly when failureThreshold failed calls
\* have completed with no successful call (or Reset) in between: while it is
\* Closed fewer than failureThreshold consecutive failures have occurred, and
\* the step that opens it is the one that completes the failureThreshold-th.
C15_OpensAtThreshold ==
    /\ [](cb.state = "Closed" => consecutiveFailures < cbConfig.failureThreshold)
    /\ [][(cb.state = "Closed" /\ cb'.state = "Open")
            => consecutiveFailures' = cbConfig.failureThreshold]_vars

C15_Witness ==
    /\ cb.state = "Open"
    /\ cbConfig.failureThreshold > 1
    /\ consecutiveFailures = cbConfig.failureThreshold
    /\ \E c \in Callers : calls[c].ret = "ok"

\* C16: an Execute call that found the breaker Open, and checks the timeout
\* before it has elapsed, returns "circuit breaker is open" without calling
\* fn and leaves the state and the counters of the breaker as they are.
C16_OpenFailsFast ==
    [][\A c \in Callers :
          (/\ calls[c].pc = "switch"
           /\ calls[c].state = "Open"
           /\ now - cb.lastFailureTime < cbConfig.timeout
           /\ calls'[c] # calls[c])
             => /\ calls'[c] = [pc |-> "idle", state |-> "Open", ret |-> "open"]
                /\ cb' = cb]_vars

C16_Witness ==
    /\ cb.state = "Open"
    /\ now - cb.lastFailureTime < cbConfig.timeout
    /\ \E c \in Callers : calls[c].ret = "open"

\* what C17 says of the calls of goroutine c, the timeout having elapsed
\* when elapsed is true
HalfOpenWhen(c, elapsed) ==
    /\ (/\ calls[c].pc = "switch"
        /\ calls[c].state = "Open"
        /\ elapsed
        /\ calls'[c] # calls[c])
          => calls'[c].pc = "halfopen"
    /\ (calls[c].pc = "halfopen" /\ calls'[c] # calls[c])
          => (cb'.state = "HalfOpen" /\ calls'[c].pc = "fn")
    /\ (calls[c].pc = "fn" /\ calls'[c].ret = "err" /\ cb.state = "HalfOpen")
          => cb'.state = "Open"

C18_ClosesAtThreshold ==
    /\ [](cb.state = "HalfOpen" => halfOpenSuccesses < cbConfig.successThreshold)
    /\ [][(cb.state = "HalfOpen" /\ cb'.state = "Closed" /\ calls' # calls)
            => halfOpenSuccesses' = cbConfig.successThreshold]_vars

(***************************************************************************)
(* DefaultErrorHandler.  HandleError and ResetRetryCount hold h.mutex from *)
(* their first statement to their return: each call is one step, and calls *)
(* made at the same time are steps in some order.                          *)
(***************************************************************************)
\* the switch of HandleError, Warning errors all skipped
HandleErrorAction_WarningSkips(err, attempts, max) ==
    CASE err.Severity = "Critical" -> "Abort"
      [] err.Severity = "Error" ->
            IF err.Recoverable /\ attempts < max THEN "Retry" ELSE "Abort"
      [] err.Severity = "Warning" -> "Skip"
      [] err.Severity = "Info" -> "Continue"
      [] OTHER -> "Abort"

\* the switch of HandleError without "h.retryAttempts[key] < h.maxRetries"
HandleErrorAction_NoMax(err, attempts, max) ==
    CASE err.Severity = "Critical" -> "Abort"
      [] err.Severity = "Error" ->
            IF err.Recoverable THEN "Retry" ELSE "Abort"
      [] err.Severity = "Warning" ->
            IF err.Recoverable THEN "Continue" ELSE "Skip"
      [] err.Severity = "Info" -> "Continue"
      [] OTHER -> "Abort"

\* the switch of HandleError: the action returned for err when attempts is
\* h.retryAttempts[key]
HandleErrorAction(err, attempts, max) ==
    CASE err.Severity = "Critical" -> "Abort"
      [] err.Severity = "Error" ->
            IF err.Recoverable /\ attempts < max THEN "Retry" ELSE "Abort"
      [] err.Severity = "Warning" ->
            IF err.Recoverable THEN "Continue" ELSE "Skip"
      [] err.Severity = "Info" -> "Continue"
      [] OTHER -> "Abort"

\* HandleError: the Retry branch is the one that counts the attempt
HandleError(err) ==
    LET key == RetryKey(err.Component, err.ErrorType)
        action == HandleErrorAction(err, retryAttempts[key], maxRetries)
    IN /\ retryAttempts' = IF action = "Retry"
                           THEN [retryAttempts EXCEPT ![key] = @ + 1]
                           ELSE retryAttempts
       /\ handled' = [err |-> err, count |-> retryAttempts[key],
                      action |-> action]
       /\ retriesReturned' =
            IF action = "Retry"
            THEN [retriesReturned EXCEPT ![<< err.Component, err.ErrorType >>] = @ + 1]
            ELSE retriesReturned
       /\ UNCHANGED << pipelineVars, cbVars, maxRetries >>

\* ResetRetryCount: delete(h.retryAttempts, key)
ResetRetryCount(component, errorType) ==
    /\ retryAttempts' =
            [retryAttempts EXCEPT ![RetryKey(component, errorType)] = 0]
    /\ retriesReturned' = [retriesReturned EXCEPT ![<< component, errorType >>] = 0]
    /\ UNCHANGED << pipelineVars, cbVars, maxRetries, handled >>

InitHandler ==
    /\ NewPipeline
    /\ NewCircuitBreaker(1, 1, 0)
    /\ \E max \in 0..MaxRetries : NewDefaultErrorHandler(max)

NextHandler ==
    \/ \E err \in PipelineErrors : HandleError(err)
    \/ \E component \in ErrComponents : AddPipelineError(component)
    \/ \E component \in ErrComponents, errorType \in ErrorTypes :
          ResetRetryCount(component, errorType)

SpecHandler == InitHandler /\ [][NextHandler]_vars

\* C19: HandleError returns the action of the default policy table: Critical
\* gives Abort; Error gives Retry when the error is recoverable and the retry
\* count of its (component, kind) is below max, else Abort; Warning gives
\* Continue when recoverable, else Skip; Info gives Continue.
C19_DefaultPolicy ==
    handled.action # "none" =>
        LET err == handled.err
            below == handled.count < maxRetries
        IN /\ err.Severity = "Critical" => handled.action = "Abort"
           /\ (err.Severity = "Error" /\ err.Recoverable /\ below)
                => handled.action = "Retry"
           /\ (err.Severity = "Error" /\ ~ (err.Recoverable /\ below))
                => handled.action = "Abort"
           /\ (err.Severity = "Warning" /\ err.Recoverable)
                => handled.action = "Continue"
           /\ (err.Severity = "Warning" /\ ~ err.Recoverable)
                => handled.action = "Skip"
           /\ err.Severity = "Info" => handled.action = "Continue"

C19_Witness ==
    /\ handled.action = "Abort"
    /\ handled.err.Severity = "Error"
    /\ handled.err.Recoverable
    /\ maxRetries > 0
    /\ handled.count = maxRetries

\* C20: after any sequence of HandleError and ResetRetryCount calls the retry
\* count kept for a (component, kind) pair is at most maxRetries, and so is
\* the number of Retry actions returned for the pair since its latest reset.
C20_RetriesBounded ==
    \A component \in ErrComponents, errorType \in ErrorTypes :
        /\ retryAttempts[RetryKey(component, errorType)] <= maxRetries
        /\ retriesReturned[<< component, errorType >>] <= maxRetries

C20_Witness ==
    /\ maxRetries > 1
    /\ \E pair \in ErrComponents \X ErrorTypes :
          /\ retriesReturned[pair] = maxRetries
          /\ \E other \in (ErrComponents \X ErrorTypes) \ {pair} :
                retriesReturned[other] = 1
    /\ handled.action = "Retry"

(***************************************************************************)
(* Retry policy and connection transforms in the engines                   *)
(***************************************************************************)
\* MaxRetries of NewDefaultRetryPolicy
RetryPolicyMaxRetries == 3

\* C21: a run retries a failing Process: with max_retries = 3, or 2, the
\* "error executing component" error of a component is returned only after
\* the component's Process was called more than max_retries times (three
\* failures followed by a success complete the run with max_retries = 3).
C21_RetriedBeforeError ==
    \A max \in { RetryPolicyMaxRetries - 1, RetryPolicyMaxRetries } :
        (/\ engine = "concurrent"
         /\ runResult.status = "returned"
         /\ runResult.err = "error executing component")
            => invoked[runResult.component] > max

\* strings.ToUpper on the names values are made of
ToUpper(s) ==
    CASE s = "a" -> "A" [] s = "b" -> "B" [] s = "c" -> "C"
      [] s = "out" -> "OUT" [] OTHER -> s

\* the transform function of NewStringToUpperTransform applied to the value
\* of an output port: the upper-cased string, or nil (and an error) for a
\* value that is not a string
StringToUpperTransform(v) ==
    IF \E i \in DOMAIN OutputPorts(v[1]) :
            /\ OutputPorts(v[1])[i].PortName = v[2]
            /\ OutputPorts(v[1])[i].PortType = "string"
    THEN << ToUpper(v[1]), ToUpper(v[2]) >>
    ELSE Nil

\* the connection that fills input port p of component n in a DefaultEngine
\* run (the last one in pipeline order), 0 when there is none
LastInto(conns, n, p) ==
    LET hits == { k \in DOMAIN conns :
                    conns[k].ToComponent = n /\ conns[k].ToPort = p }
    IN IF hits = {} THEN 0 ELSE CHOOSE i \in hits : \A j \in hits : j <= i

\* C30: in a DefaultEngine run, a component whose Process was called with an
\* input port fed by a connection that declares a transform was handed the
\* transform of the value the source produced, not the raw value.
C30_TransformApplied ==
    \A n \in components : \A p \in InPortNames :
        LET k == LastInto(connections, n, p)
        IN (/\ engine = "default"
            /\ invoked[n] > 0
            /\ k # 0
            /\ connections[k].Transform
            /\ connections[k].FromComponent \in components
            /\ compInputs[n][p] # Nil)
              => compInputs[n][p] =
                    StringToUpperTransform(Value(connections[k].FromComponent,
                                                 connections[k].FromPort))

(***************************************************************************)
(* Construction errors and Pipeline.Run                                    *)
(***************************************************************************)
\* a Connect[T] call on a pipeline that has not been run yet
ConnectBeforeRun ==
    /\ runResult.status = "idle"
    /\ \E T \in Types, from, to \in Names, fromPort \in OutPortNames,
          toPort \in InPortNames : Connect(T, from, fromPort, to, toPort)

\* a built pipeline to which connections are added until it is run with the
\* DefaultEngine
NextConnectRun ==
    \/ ConnectBeforeRun
    \/ NextSeq

SpecConnectRun == InitSeq /\ [][NextConnectRun]_vars

InitQuery ==
    /\ InitRun("nil")
    /\ \A k \in DOMAIN connections : ~ connections[k].Transform

\* the queries; the validation and the topological order are asked for
\* once or twice in a row
NextQuery ==
    \/ \E again \in BOOLEAN : ValidateComprehensive(again)
    \/ \E again \in BOOLEAN : GetTopologyOrder(again)
    \/ GetCriticalPath(FALSE)
    \/ CallInputPorts(FALSE)
    \/ CallOutputPorts(FALSE)

SpecQuery == InitQuery /\ [][NextQuery]_vars

\* the ports of the registered components, as PortOf names them
InputPortsOf(comps) ==
    UNION { { PortOf(n, InputPorts(n)[i]) : i \in DOMAIN InputPorts(n) } :
            n \in comps }

OutputPortsOf(comps) ==
    UNION { { PortOf(n, OutputPorts(n)[i]) : i \in DOMAIN OutputPorts(n) } :
            n \in comps }

\* a list that holds exactly the elements of S, each once
ListsExactly(ports, S) ==
    /\ Range(ports) = S
    /\ Len(ports) = Cardinality(S)

\* C23: Pipeline.InputPorts returns exactly the input ports of the registered
\* components that no connection has as its target, and Pipeline.OutputPorts
\* exactly their output ports that no connection has as its source.
C23_UnconnectedPorts ==
    /\ result.op = "InputPorts"
        => ListsExactly(result.Ports,
                { pt \in InputPortsOf(components) :
                    ~ \E k \in DOMAIN connections :
                        /\ connections[k].ToComponent = pt[1]
                        /\ connections[k].ToPort = pt[2] })
    /\ result.op = "OutputPorts"
        => ListsExactly(result.Ports,
                { pt \in OutputPortsOf(components) :
                    ~ \E k \in DOMAIN connections :
                        /\ connections[k].FromComponent = pt[1]
                        /\ connections[k].FromPort = pt[2] })

C23_Witness ==
    /\ result.op = "InputPorts"
    /\ components = {"a", "b", "c"}
    /\ Len(connections) = 1
    /\ connections[1].ToComponent = "b"
    /\ Range(result.Ports) = { << "a", "in" >>, << "c", "in" >> }

\* C25: ValidateComprehensive called twice in a row on the same pipeline
\* returns the same Valid flag, the same set of errors and the same set of
\* warnings.
C25_Idempotent ==
    (result.op = "ValidateComprehensive" /\ previous.op = "ValidateComprehensive")
        => /\ result.Valid = previous.Valid
           /\ result.Errors = previous.Errors
           /\ result.Warnings = previous.Warnings

\* C26: GetTopologyOrder called twice in a row on the same pipeline returns
\* the same sequence.
C26_Deterministic ==
    (result.op = "GetTopologyOrder" /\ previous.op = "GetTopologyOrder")
        => result.TopologyOrder = previous.TopologyOrder

\* the directed chains of registered components: each component is joined
\* to the next by a connection
Chains(comps, conns) ==
    { s \in BoundedSeq(comps, Cardinality(Names)) :
        \A i \in 1..(Len(s) - 1) : << s[i], s[i + 1] >> \in Edges(conns) }

\* the number of components of the longest chain
LongestChain(comps, conns) ==
    CHOOSE m \in 0..Cardinality(Names) :
        /\ \E s \in Chains(comps, conns) : Len(s) = m
        /\ \A s \in Chains(comps, conns) : Len(s) <= m

\* C27: for an acyclic pipeline GetCriticalPath returns a sequence of
\* components, each joined to the next by a connection, with as many
\* components as the longest directed chain of the pipeline.
C27_LongestChain ==
    (result.op = "GetCriticalPath" /\ ~ HasDirectedCycle(connections))
        => /\ \A i \in 1..(Len(result.CriticalPath) - 1) :
                << result.CriticalPath[i], result.CriticalPath[i + 1] >>
                    \in Edges(connections)
           /\ Len(result.CriticalPath) = LongestChain(components, connections)

(***************************************************************************)
(* Pipeline.Process: the pipeline run as a component of another pipeline   *)
(***************************************************************************)
\* the port names of the unconnected ports: the keys of inputChans and of
\* outputChans
ExposedInputs(comps, conns) ==
    { pt[2] : pt \in UNION { Range(PipelineInputPorts(conns, order, 1)) :
                                order \in Perms(comps) } }

ExposedOutputs(comps, conns) ==
    { pt[2] : pt \in UNION { Range(PipelineOutputPorts(conns, order, 1)) :
                                order \in Perms(comps) } }

\* make(chan interface{}, 1)
MadeChan == [made |-> TRUE, buf |-> << >>, closed |-> FALSE]

\* Process up to the start of the goroutine: the channels are made, one per
\* name of an exposed port, and the goroutine that runs the engine of
\* defaultEngineCreator (a ConcurrentEngine, registered by the init of package
\* execution) is started; inputs holds the keys of the inputs map of the call
SubProcess(inputs) ==
    /\ sub.pc = "idle"
    /\ runResult.status = "idle"
    /\ sub' = [sub EXCEPT
                !.pc = "write",
                !.inputs = inputs,
                !.inputChans = [name \in InPortNames |->
                    IF name \in ExposedInputs(components, connections)
                    THEN MadeChan ELSE NoChan],
                !.outputChans = [name \in OutPortNames |->
                    IF name \in ExposedOutputs(components, connections)
                    THEN MadeChan ELSE NoChan]]
    /\ runResult' = [status |-> "started", err |-> "", component |-> ""]
    /\ UNCHANGED << buildVars, result, previous, errorCollector, objectVars, resilienceVars,
                    invoked, procErr, compInputs, seqVars, concVars >>

\* Process, "Write the external inputs to the pipeline's input channels":
\* each channel is empty and holds one value, so no send blocks
SubWriteInputs ==
    /\ sub.pc = "write"
    /\ sub' = [sub EXCEPT
                !.pc = "close",
                !.inputChans = [name \in InPortNames |->
                    IF name \in sub.inputs /\ sub.inputChans[name].made
                    THEN [sub.inputChans[name] EXCEPT
                            !.buf = Append(@, << "input", name >>)]
                    ELSE sub.inputChans[name]]]
    /\ UNCHANGED << buildVars, result, previous, errorCollector, objectVars, resilienceVars,
                    runVars, seqVars, concVars >>

\* Process, "Close the output channels"
SubCloseOutputs ==
    /\ sub.pc = "close"
    /\ sub' = [sub EXCEPT
                !.pc = "wait",
                !.outputChans = [name \in OutPortNames |->
                    [sub.outputChans[name] EXCEPT !.closed = TRUE]]]
    /\ UNCHANGED << buildVars, result, previous, errorCollector, objectVars, resilienceVars,
                    runVars, seqVars, concVars >>

\* Process, wg.Wait(): the goroutine has returned from engine.Run
SubWait ==
    /\ sub.pc = "wait"
    /\ runResult.status = "returned"
    /\ sub' = [sub EXCEPT !.pc = "drain"]
    /\ UNCHANGED << buildVars, result, previous, errorCollector, objectVars, resilienceVars,
                    runVars, seqVars, concVars >>

\* Process, "Read from the output channels and return the data": the range
\* over a closed channel yields what its buffer holds, the last value stays;
\* "return outputs, nil" whatever engine.Run returned in the goroutine
SubDrain ==
    /\ sub.pc = "drain"
    /\ sub' = [sub EXCEPT
                !.pc = "returned",
                !.err = "",
                !.outputChans = [name \in OutPortNames |->
                    [sub.outputChans[name] EXCEPT !.buf = << >>]],
                !.outputs = [name \in OutPortNames |->
                    IF sub.outputChans[name].made /\ sub.outputChans[name].buf # << >>
                    THEN sub.outputChans[name].buf[Len(sub.outputChans[name].buf)]
                    ELSE Nil]]
    /\ UNCHANGED << buildVars, result, previous, errorCollector, objectVars, resilienceVars,
                    runVars, seqVars, concVars >>

\* the goroutine: engine.Run of the ConcurrentEngine is entered with
\* inputChans and outputChans; its workers and its closing goroutine are the
\* actions of the engine
SubEngineRun ==
    /\ runResult.status = "started"
    /\ ConcurrentEngineRun
    /\ UNCHANGED << buildVars, result, previous, errorCollector, sub, objectVars,
                    resilienceVars, invoked, procErr, compInputs, seqVars,
                    nread, pending, errCh, closed, ctxCancelled >>

\* a pipeline built with AddComponent and Connect[T] without a construction
\* error
InitSub ==
    /\ InitRun("nil")
    /\ errors = << >>
    /\ \A k \in DOMAIN connections :
        /\ ~ connections[k].Transform
        /\ \E T \in Types :
            ConnectError(components, T, connections[k].FromComponent,
                         connections[k].FromPort, connections[k].ToComponent,
                         connections[k].ToPort) = ""

\* The ports of the catalogue share their names: whenever a sub-pipeline
\* exposes an input port, every worker reads its port "in" from the external
\* channel, and no worker reads a queue.
NextSub ==
    \/ \E inputs \in SUBSET InPortNames : SubProcess(inputs)
    \/ SubWriteInputs
    \/ SubCloseOutputs
    \/ SubWait
    \/ SubDrain
    \/ SubEngineRun
    \/ \E r \in Names : ReceiveExternal(r)
    \/ \E n \in Names : Process(n)
    \/ \E s \in Names : SendExternal(s)
    \/ CloseChannels
    \/ ReturnError
    \/ ReturnNil

SpecSub == InitSub /\ [][NextSub]_vars

\* C24: in a Process call of a pipeline the engine never sends on a closed
\* output channel; and when the inner run has completed and Process has
\* returned, the returned map holds, on every exposed output port, the value
\* the inner run produced on it.
C24_DrainedBeforeClose ==
    /\ runResult.status # "panicked"
    /\ (sub.pc = "returned" /\ runResult = Returned("", ""))
        => \A n \in components, port \in OutPortNames :
            (/\ port \in ProcessOutputs(n)
             /\ ~ HasChannel(connections, n, port))
                => sub.outputs[port] = Value(n, port)

(***************************************************************************)
(* NewPipelineWithConfig and the validation of the configuration           *)
(***************************************************************************)
\* the configurations handed to NewPipelineWithConfig: 0 stands for a
\* setting that is not positive; the resource limits are the default ones
PipelineConfigs ==
    { [NewDefaultPipelineConfig EXCEPT
            !.MaxConcurrency = mc, !.Timeout = t, !.DefaultBufferSize = dbs,
            !.MaxBufferSize = mbs, !.AllowCycles = ac] :
        mc \in 0..MaxSetting, t \in 0..MaxSetting, dbs \in 0..MaxSetting,
        mbs \in 0..MaxSetting, ac \in BOOLEAN }

\* a pipeline made by NewPipelineWithConfig and built with AddComponent and
\* Connect[T] without a construction error; Connect reads
\* p.config.DefaultBufferSize, so a pipeline with a nil configuration has no
\* connection
InitConfig ==
    /\ components \in SUBSET Names
    /\ attached = AttachOrder(components)
    /\ connections \in BoundedSeq(Connections, MaxConns)
    /\ \A k \in DOMAIN connections :
        /\ ~ connections[k].Transform
        /\ \E T \in Types :
            ConnectError(components, T, connections[k].FromComponent,
                         connections[k].FromPort, connections[k].ToComponent,
                         connections[k].ToPort) = ""
    /\ errors = << >>
    /\ engine = "nil"
    /\ config \in PipelineConfigs \cup { Nil }
    /\ config = Nil => connections = << >>
    /\ result = NoResult
    /\ previous = NoResult
    /\ NotRunning
    /\ NewCircuitBreaker(1, 1, 0)
    /\ NewDefaultErrorHandler(0)

NextConfig == ValidateComprehensive(FALSE)

SpecConfig == InitConfig /\ [][NextConfig]_vars

\* C28: with AllowCycles set in the configuration, ValidateComprehensive on
\* a pipeline with a cycle reports no Cycle error and reports the cycle in a
\* warning.
C28_CycleIsWarning ==
    (/\ result.op = "ValidateComprehensive"
     /\ config # Nil
     /\ config.AllowCycles
     /\ HasDirectedCycle(connections))
        => /\ ~ HasCycleError(result)
           /\ \E w \in result.Warnings :
                w.Message # << >> /\ w.Message[1] = "cycle involving component"

\* a configuration that is not nil breaks one of the four invariants
ViolatesInvariant(cfg) ==
    \/ cfg.MaxConcurrency <= 0
    \/ cfg.Timeout <= 0
    \/ cfg.DefaultBufferSize <= 0
    \/ cfg.MaxBufferSize < cfg.DefaultBufferSize

\* C29: when the configuration breaks one of max_concurrency > 0,
\* timeout > 0, default_buffer_size > 0, max_buffer_size >=
\* default_buffer_size, ValidateComprehensive returns Valid == false and an
\* InvalidConfiguration error.
C29_InvalidConfiguration ==
    (/\ result.op = "ValidateComprehensive"
     /\ config # Nil
     /\ ViolatesInvariant(config))
        => /\ ~ result.Valid
           /\ \E e \in result.Errors : e.Type = "InvalidConfiguration"

(***************************************************************************)
(* The circuit breaker under concurrent Execute calls                      *)
(***************************************************************************)
\* the state changes of the breaker's state diagram
CircuitTransitions ==
    { << "Closed", "Open" >>, << "Open", "HalfOpen" >>,
      << "HalfOpen", "Closed" >>, << "HalfOpen", "Open" >> }

\* C33: under any interleaving of concurrent Execute calls the state of the
\* breaker changes only along Closed to Open, Open to HalfOpen, HalfOpen to
\* Closed and HalfOpen to Open, a Reset aside; it never goes from Closed
\* directly to HalfOpen.
C33_StateDiagram ==
    [][(cb'.state # cb.state /\ ~ Reset)
            => << cb.state, cb'.state >> \in CircuitTransitions]_vars

(***************************************************************************)
(* Pipeline.Cleanup                                                        *)
(***************************************************************************)
Reverse(s) == [i \in 1..Len(s) |-> s[Len(s) + 1 - i]]

\* Pipeline.Cleanup: componentNames is filled by a range over the map
\* p.components and walked from its last element to its first; Cleanup of a
\* component may fail (failing), Close of either engine returns nil.  The
\* returned error counts and lists the failures in the order they occurred.
Cleanup ==
    \E componentNames \in Perms(components), failing \in SUBSET components :
        /\ cleanup' =
            [status |-> "returned",
             called |-> Reverse(componentNames),
             failed |-> SelectSeq(Reverse(componentNames),
                                  LAMBDA n : n \in failing),
             errs |-> Cardinality(failing)]
        /\ UNCHANGED << buildVars, result, previous, runVars, seqVars, concVars,
                        sub, errorCollector, ecErrors, ecMutex, ecCalls, ecLog,
                        execGraph, resilienceVars >>

NextCleanup ==
    \/ \E name \in Names : AddComponent(name)
    \/ Cleanup

SpecCleanup == Init /\ [][NextCleanup]_vars

\* C31: Pipeline.Cleanup calls Cleanup on every attached component exactly
\* once, in the reverse of the order in which the components were added, goes
\* on to the remaining components when one fails, and reports the failures
\* together at the end.
C31_ReverseAttachOrder ==
    [][Cleanup => /\ cleanup'.called = Reverse(attached)
                  /\ cleanup'.errs = Len(cleanup'.failed)]_vars

(***************************************************************************)
(* ErrorCollector                                                          *)
(***************************************************************************)
\* the errors handed to Collect
CollectableErrors ==
    { err \in PipelineErrors :
        /\ err.ErrorType = "RuntimeError"
        /\ err.Recoverable
        /\ err.Severity \in {"Warning", "Error"} }

\* Collect that does not wait for the mutex
Collect_NoMutex(c, err) ==
    /\ ecCalls[c].pc = "idle"
    /\ Len(ecErrors) < MaxLog
    /\ Len(ecLog) < MaxLog
    /\ ecMutex' = c
    /\ ecCalls' = [ecCalls EXCEPT ![c] = [pc |-> "append", arg |-> << err >>,
                                          local |-> << >>]]
    /\ UNCHANGED << buildVars, result, previous, runVars, seqVars, concVars,
                    sub, errorCollector, cleanup, ecErrors, ecLog, execGraph,
                    resilienceVars >>

\* Collect: ec.mutex.Lock()
Collect(c, err) ==
    /\ ecCalls[c].pc = "idle"
    /\ Len(ecErrors) < MaxLog
    /\ Len(ecLog) < MaxLog
    /\ ecMutex = ""
    /\ ecMutex' = c
    /\ ecCalls' = [ecCalls EXCEPT ![c] = [pc |-> "append", arg |-> << err >>,
                                          local |-> << >>]]
    /\ UNCHANGED << buildVars, result, previous, runVars, seqVars, concVars,
                    sub, errorCollector, cleanup, ecErrors, ecLog, execGraph,
                    resilienceVars >>

\* Collect: append(ec.errors, err) reads the slice
CollectAppend(c) ==
    /\ ecCalls[c].pc = "append"
    /\ ecCalls' = [ecCalls EXCEPT ![c] = [@ EXCEPT !.pc = "store",
                                                   !.local = ecErrors]]
    /\ UNCHANGED << buildVars, result, previous, runVars, seqVars, concVars,
                    sub, errorCollector, cleanup, ecErrors, ecMutex, ecLog,
                    execGraph, resilienceVars >>

\* Collect: "ec.errors = " stores the appended slice, and the deferred Unlock
CollectReturn(c) ==
    /\ ecCalls[c].pc = "store"
    /\ ecErrors' = Append(ecCalls[c].local, ecCalls[c].arg[1])
    /\ ecLog' = Append(ecLog, ecCalls[c].arg[1])
    /\ ecMutex' = ""
    /\ ecCalls' = [ecCalls EXCEPT ![c] = NotCollecting]
    /\ UNCHANGED << buildVars, result, previous, runVars, seqVars, concVars,
                    sub, errorCollector, cleanup, execGraph, resilienceVars >>

\* Clear, under the mutex: ec.errors = ec.errors[:0]
Clear ==
    /\ ecMutex = ""
    /\ ecErrors' = << >>
    /\ ecLog' = << >>
    /\ UNCHANGED << buildVars, result, previous, runVars, seqVars, concVars,
                    sub, errorCollector, cleanup, ecMutex, ecCalls, execGraph,
                    resilienceVars >>

\* Count
Count == Len(ecErrors)

\* GetErrors: a copy of ec.errors
GetErrors == [i \in 1..Len(ecErrors) |-> ecErrors[i]]

\* the loop of GetErrorsByComponent and of GetErrorsBySeverity over ec.errors
RECURSIVE GetErrorsLoop(_, _, _, _)
GetErrorsLoop(field, value, i, res) ==
    IF i > Len(ecErrors) THEN res
    ELSE GetErrorsLoop(field, value, i + 1,
                       IF ecErrors[i][field] = value
                       THEN Append(res, ecErrors[i]) ELSE res)

\* GetErrorsByComponent
GetErrorsByComponent(component) == GetErrorsLoop("Component", component, 1, << >>)

\* GetErrorsBySeverity
GetErrorsBySeverity(severity) == GetErrorsLoop("Severity", severity, 1, << >>)

InitCollector == Init

NextCollector ==
    \/ \E c \in Callers, err \in CollectableErrors : Collect(c, err)
    \/ \E c \in Callers : CollectAppend(c)
    \/ \E c \in Callers : CollectReturn(c)
    \/ Clear

SpecCollector == InitCollector /\ [][NextCollector]_vars

\* C32: after any sequence of Collect and Clear calls, concurrent ones
\* included, a reader that holds the mutex finds that Count is the number of
\* errors collected since the last Clear, that GetErrors returns them in
\* collection order, and that GetErrorsByComponent and GetErrorsBySeverity
\* return exactly the collected errors of that component or severity, in
\* that order: no Collect call is lost.
C32_AppendOnlyLog ==
    ecMutex = "" =>
        /\ Count = Len(ecLog)
        /\ GetErrors = ecLog
        /\ \A component \in ErrComponents :
            GetErrorsByComponent(component)
                = SelectSeq(ecLog, LAMBDA e : e.Component = component)
        /\ \A severity \in Severities :
            GetErrorsBySeverity(severity)
                = SelectSeq(ecLog, LAMBDA e : e.Severity = severity)

\* two Collect calls have completed, with errors of different components
\* and severities, and no call is under way
C32_Witness ==
    /\ ecMutex = ""
    /\ Len(ecLog) = 2
    /\ ecLog[1].Component # ecLog[2].Component
    /\ ecLog[1].Severity # ecLog[2].Severity
    /\ ecErrors = ecLog

(***************************************************************************)
(* Pipeline.Validate and the construction errors                           *)
(***************************************************************************)
\* Pipeline.detectCycles: the same search as the validator's, over the
\* components in the order the map yields them
pipelineDetectCycles(conns, order) == detectCycles(conns, order)

\* Pipeline.Validate: the first construction error, else the cycle error,
\* else nil (Validate of a BaseComponent returns nil)
Validate(errs, conns, order) ==
    IF Len(errs) > 0 THEN "construction error"
    ELSE IF pipelineDetectCycles(conns, order) # ""
    THEN "cycle detected in pipeline graph"
    ELSE ""

\* Pipeline.Run, the test of the construction errors
ConstructionErrors(errs) ==
    IF Len(errs) > 0 THEN "pipeline has construction errors" ELSE ""

\* C39: a pipeline that carries a recorded construction error is never
\* reported Valid: whenever ValidateComprehensive has returned Valid == true,
\* Validate returns nil and Run does not fail on construction errors.
C39_ValidMeansNoConstructionError ==
    (result.op = "ValidateComprehensive" /\ result.Valid)
        => /\ \A order \in Perms(components) :
                Validate(errors, connections, order) = ""
           /\ ConstructionErrors(errors) = ""

(***************************************************************************)
(* execution.Graph as an object: TopologicalSort called more than once     *)
(***************************************************************************)
\* NewGraph: g.edges holds the connections by source, g.inDegree one entry
\* per component and per sink of a connection; sorts counts the
\* TopologicalSort calls made on the graph
NewGraph(comps, conns) ==
    [nodes |-> comps,
     edges |-> conns,
     keys |-> comps \cup { conns[k].ToComponent : k \in DOMAIN conns },
     inDegree |-> [n \in Names |-> InDegree(conns, n)],
     sorts |-> 0]

\* a caller makes a Graph of the pipeline
CallNewGraph ==
    /\ execGraph = Nil
    /\ execGraph' = NewGraph(components, connections)
    /\ UNCHANGED << buildVars, result, previous, runVars, seqVars, concVars,
                    sub, errorCollector, cleanup, ecErrors, ecMutex, ecCalls,
                    ecLog, resilienceVars >>

\* Graph.TopologicalSort on the graph as the calls before have left it: the
\* queue starts from the entries of g.inDegree that are 0 now, in map order,
\* and the decrements are made on g.inDegree itself
CallTopologicalSort ==
    /\ execGraph # Nil
    /\ execGraph.sorts < MaxSorts
    /\ \E queue0 \in Perms({ n \in execGraph.keys : execGraph.inDegree[n] = 0 }) :
        LET t == TopologicalSortLoop(execGraph.edges, queue0,
                                     execGraph.inDegree, << >>)
            err == Len(t.sorted) # Cardinality(execGraph.nodes)
        IN /\ execGraph' = [execGraph EXCEPT !.inDegree = t.inDegree,
                                             !.sorts = @ + 1]
           /\ result' = QueryResult("TopologicalSort", ~ err, {}, {},
                                    IF err THEN << >> ELSE t.sorted,
                                    << >>, << >>)
           /\ previous' = NoResult
    /\ UNCHANGED << buildVars, runVars, seqVars, concVars,
                    sub, errorCollector, cleanup, ecErrors, ecMutex, ecCalls,
                    ecLog, resilienceVars >>

InitGraph == InitRun("default")

NextGraph ==
    \/ CallNewGraph
    \/ CallTopologicalSort

SpecGraph == InitGraph /\ [][NextGraph]_vars

\* what TopologicalSort is to return on the pipeline: the cycle error when
\* the connections form a cycle, else an order of the components in which
\* every connection's source precedes its sink
SortsThePipeline ==
    IF HasDirectedCycle(connections)
    THEN ~ result.Valid
    ELSE result.Valid
            /\ IsTopologicalOrder(result.TopologyOrder, components, connections)

\* C40: Graph.TopologicalSort can be called repeatedly on the same Graph: a
\* second call on an acyclic graph again returns an order in which every
\* connection's source precedes its sink, and on a cyclic graph again
\* returns the cycle error.  (Valid stands for a nil error.)
C40_SortAgain ==
    (/\ result.op = "TopologicalSort"
     /\ Closed(components, connections))
        => SortsThePipeline

\* the first call on a Graph does return what it is to return
FirstSortIsRight ==
    (/\ result.op = "TopologicalSort"
     /\ execGraph.sorts = 1
     /\ Closed(components, connections))
        => SortsThePipeline

(***************************************************************************)
(* Pipeline.Process: the error of the inner run                            *)
(***************************************************************************)
\* C38: when the inner engine run of a sub-pipeline has failed, Process
\* returns an error to the outer pipeline: an inner failure is never
\* reported as a successful result.
C38_InnerFailureReturned ==
    (/\ sub.pc = "returned"
     /\ runResult.status = "returned"
     /\ runResult.err # "")
        => sub.err # ""

(***************************************************************************)
(* Termination of ConcurrentEngine.Run                                     *)
(***************************************************************************)
\* C34: for every acyclic pipeline, run without external channels, in which
\* every Process call succeeds, ConcurrentEngine.Run eventually returns nil
\* under every interleaving, and by then the Process of every component has
\* been invoked.
C34_RunReturnsNil ==
    (/\ errors = << >>
     /\ Closed(components, connections)
     /\ ~ HasDirectedCycle(connections))
        ~> \/ procErr # {}
           \/ /\ runResult = Returned("", "")
              /\ \A n \in components : invoked[n] >= 1

\* C35: Pipeline.Run with the ConcurrentEngine on a pipeline whose
\* connections form a cycle eventually returns an error: the run does not
\* block for ever.
C35_CycleReturnsError ==
    (/\ errors = << >>
     /\ Closed(components, connections)
     /\ HasDirectedCycle(connections))
        ~> (runResult.status = "returned" /\ runResult.err # "")

\* C36: in a ConcurrentEngine run in which the Process of one component
\* fails, every other worker eventually returns as well, and the goroutine
\* that waits for the workers closes the queues.
C36_WorkersReturnAfterFailure ==
    (/\ procErr # {}
     /\ Closed(components, connections)
     /\ ~ HasDirectedCycle(connections)
     /\ SingleInbound(connections)
     /\ SingleOutbound(connections))
        ~> (/\ \A n \in components : wpc[n] = "returned"
            /\ closed)

(***************************************************************************)
(* ConcurrentEngine.Run with external output channels                      *)
(***************************************************************************)
\* a caller hands Run of the ConcurrentEngine a pipeline, no inputs, and an
\* outputs map with the keys outs, each a channel of one slot (as those
\* Pipeline.Process makes)
EngineRunWithOutputs(outs) ==
    /\ engine = "concurrent"
    /\ runResult.status = "idle"
    /\ sub' = [sub EXCEPT !.outputChans =
                [name \in OutPortNames |->
                    IF name \in outs THEN MadeChan ELSE NoChan]]
    /\ ConcurrentEngineRun
    /\ UNCHANGED << buildVars, result, previous, errorCollector, objectVars,
                    resilienceVars, invoked, procErr, compInputs, seqVars,
                    nread, pending, errCh, closed, ctxCancelled >>

InitOutputs == InitConc

NextOutputs ==
    \/ \E outs \in SUBSET OutPortNames : EngineRunWithOutputs(outs)
    \/ \E r \in Names : Receive(r)
    \/ \E n \in Names : Process(n)
    \/ \E s \in Names : SendExternal(s)
    \/ CloseChannels
    \/ ReturnError
    \/ ReturnNil

SpecOutputs == InitOutputs /\ [][NextOutputs]_vars

\* C37: in a ConcurrentEngine run with external output channels, a value
\* produced on an output port that has an outbound connection is delivered
\* to the sink of that connection even when an external output channel is
\* registered under the name of the port: once the worker of the source is
\* through with its sends, the sink holds the value on its input port.
\* Stated for acyclic pipelines with one connection per port.
C37_DeliveredToSink ==
    (/\ Closed(components, connections)
     /\ ~ HasDirectedCycle(connections)
     /\ SingleInbound(connections)
     /\ SingleOutbound(connections))
        => \A k \in DOMAIN connections :
              LET conn == connections[k]
              IN (/\ ExternalOut(conn.FromPort)
                  /\ wpc[conn.FromComponent] = "returned"
                  /\ invoked[conn.FromComponent] >= 1
                  /\ conn.FromComponent \notin procErr)
                    => compInputs[conn.ToComponent][conn.ToPort]
                          = Value(conn.FromComponent, conn.FromPort)

====
